---- MODULE Spec2Model ----
(***************************************************************************)
(* Verification model of vercel-seo-audit: the fetch layer's redirect      *)
(* chain follower, the audit orchestrator (runner), and the analyzers that *)
(* share the per-run AuditContext.                                         *)
(*                                                                         *)
(* The module holds several specifications over one set of variables.      *)
(* Each specification drives one component; the variables of the other     *)
(* components stay at their idle values.                                   *)
(*   SpecChain   followRedirectChain            (utils/http.ts)            *)
(*   SpecRunner  runAudit / runModules          (runner.ts)                *)
(*   SpecSitemap auditSitemap                   (audit/sitemap.ts)         *)
(*   SpecCache   phase-2 analyzers on ctx.html  (audit/*.ts)               *)
(*   SpecRobots  auditRobots / parseRobotsTxt   (audit/robots.ts)          *)
(***************************************************************************)
EXTENDS Integers, Sequences, FiniteSets, TLC

VARIABLES
  \* ---- followRedirectChain ----
  chPc,        \* "loop" while iterating, "done" after return
  chUrl,       \* the url argument
  chCurrent,   \* let current
  chHops,      \* const hops: RedirectHop[]
  chSeen,      \* const seen = new Set<string>()
  chI,         \* loop counter i
  chRequests,  \* URLs passed to fetchWithoutRedirect, in order
  chLast,      \* the last response: "none", "redirect", "final", "error", "unparsable"
  chResult,    \* the returned RedirectChain, or NoResult
  \* ---- runAudit / runModules ----
  rnPc,        \* "start", "phase1", "phase2", "phase3", "done"
  rnCrawl,     \* opts.crawl !== undefined
  rnStatus,    \* per analyzer: "idle", "running", "fulfilled", "rejected"
  rnFindings,  \* per analyzer: the findings its promise fulfilled with
  rnAll,       \* allModules (phase1Results, then phase2Results, then crawl)
  rnReport,    \* the returned AuditReport, or NoResult
  \* ---- AuditContext (the cached fields) ----
  ctxRobotsTxt,    \* ctx.robotsTxt
  ctxHtml,         \* ctx.html
  ctxHeaders,      \* ctx.headers
  ctxSitemapUrls,  \* ctx.sitemapUrls
  \* ---- auditRobots ----
  rbPc,        \* "fetch" while awaiting fetchPage, "done" after return
  rbBody,      \* the robots.txt text the server holds
  rbOutcome,   \* how fetchPage ended: "none", "threw", "not200", "ok"
  rbFindings,  \* const findings: AuditFinding[]
  \* ---- auditSitemap ----
  smPc,          \* "chain", "fetch", "sample", "done", "rejected"
  smChain,       \* const chain = await followRedirectChain(sitemapUrl)
  smDoc,         \* the document the server holds at the sitemap URL
  smParsed,      \* parsed, once parseSitemapXml returned
  smIdx,         \* position of the sampling loop in sample
  smErrorCount,  \* let errorCount
  smFindings,    \* const findings: AuditFinding[]
  smPageFetches, \* URLs passed to fetchPage, in order
  smHeadFetches, \* URLs passed to fetchHead, in order
  smOutcome,     \* how fetchPage ended: "none", "threw", "not200", "ok"
  smHeadOutcomes,\* how the fetchHead calls ended so far: a subset of
                 \* {"below400", "atLeast400", "threw"}
  \* ---- the analyzers that need the homepage HTML ----
  srvResponses,  \* the responses the server may give to a homepage request
  caPc,          \* per analyzer: "idle", "head", "fetch", "done"
  caRead,        \* per analyzer: what its read of ctx.html found:
                 \* "no" (never read), "absent", "present"
  caGot,         \* per analyzer: the body its own fetchPage returned
  caWrote,       \* per analyzer: the value it assigned to ctx.html
  caHtmlWrites,  \* every value assigned to ctx.html so far
  caHeaderWrites,\* every value assigned to ctx.headers so far
  \* ---- auditMetadata ----
  mdPc,        \* "fetch", "ogHead", "twitterHead", "done"
  mdPage,      \* the homepage the server holds
  mdFetch,     \* how fetchPage ended: "none", "threw", "ok"
  mdFindings,  \* const findings: AuditFinding[]
  \* ---- auditRedirects ----
  rdPc,        \* "home", "http", "slash", "meta", "pages", "done"
  rdUrl,       \* ctx.normalizedUrl
  rdPages,     \* ctx.pages, or Undefined
  rdIdx,       \* position of the common-page loop in pagesToCheck
  rdChain,     \* const chain: the homepage chain, once it returned
  rdHttpSeen,  \* how the request for the HTTP variant ended:
               \* "none", "unreachable", "answered"
  rdFindings,  \* const findings: AuditFinding[]
  \* ---- auditCrawl ----
  crPc,        \* "start", "batch" (awaiting Promise.allSettled), "done"
  crSite,      \* the site the crawled pages are served by
  crLimit,     \* ctx.crawlLimit, or Undefined
  crUrls,      \* const urls = ctx.sitemapUrls.slice(0, limit)
  crI,         \* loop variable i (0-based)
  crInFlight,  \* positions in urls whose auditPage promise is pending
  crResults,   \* per position of the current batch: the settled result
  crStarted,   \* positions for which auditPage was called, in call order
  crFindings,  \* const findings: AuditFinding[]
  \* ---- the requests of one analyzer ----
  rqAnalyzer,  \* the analyzer that was called
  rqSite,      \* position of the next request in the analyzer's code
  rqState,     \* its promise: "running", "fulfilled", "rejected"
  rqFailed,    \* the positions whose request failed at the network level
  \* ---- the --diff step of the CLI ----
  dfPc,        \* "idle", "start", "done", "exit"
  dfCurrent,   \* auditReport
  dfPrevious,  \* what JSON.parse read from the previous report file
  dfDiff,      \* const diff: DiffResult
  \* ---- two runs of metadata, nextjs and images against one server ----
  rcServer,    \* what the server answers
  rcPc,        \* per run and analyzer: "idle", "fetch", "probe", "done"
  rcHtml,      \* per run: ctx.html
  rcHeaders,   \* per run: ctx.headers
  rcLocal,     \* per run: the headers variable of auditNextjs
  rcFindings   \* per run and analyzer: the codes of its findings

chainVars == <<chPc, chUrl, chCurrent, chHops, chSeen, chI, chRequests, chLast, chResult>>

runnerVars == <<rnPc, rnCrawl, rnStatus, rnFindings, rnAll, rnReport>>

ctxVars == <<ctxRobotsTxt, ctxHtml, ctxHeaders, ctxSitemapUrls>>

robotsVars == <<rbPc, rbBody, rbOutcome, rbFindings>>

sitemapVars == <<smPc, smChain, smDoc, smParsed, smIdx, smErrorCount,
                 smFindings, smPageFetches, smHeadFetches, smHeadOutcomes,
                 smOutcome>>

cacheVars == <<srvResponses, caPc, caRead, caGot, caWrote,
               caHtmlWrites, caHeaderWrites>>

metadataVars == <<mdPc, mdPage, mdFetch, mdFindings>>

redirectsVars == <<rdPc, rdUrl, rdPages, rdIdx, rdChain, rdHttpSeen, rdFindings>>

crawlVars == <<crPc, crSite, crLimit, crUrls, crI, crInFlight, crResults,
               crStarted, crFindings>>

requestVars == <<rqAnalyzer, rqSite, rqState, rqFailed>>

diffVars == <<dfPc, dfCurrent, dfPrevious, dfDiff>>

raceVars == <<rcServer, rcPc, rcHtml, rcHeaders, rcLocal, rcFindings>>

\* the components added last
extraVars == <<diffVars, raceVars>>

\* the components added to the frames of the others
moreVars == <<metadataVars, redirectsVars, crawlVars, requestVars, extraVars>>

vars == <<chainVars, runnerVars, ctxVars, robotsVars, sitemapVars, cacheVars,
          moreVars>>

\* what the actions of one component leave alone
chainFrame   == <<runnerVars, ctxVars, robotsVars, sitemapVars, cacheVars,
                  moreVars>>
runnerFrame  == <<chainVars, ctxVars, robotsVars, sitemapVars, cacheVars,
                  moreVars>>
robotsFrame  == <<chainVars, runnerVars, sitemapVars, cacheVars, moreVars,
                  ctxHtml, ctxHeaders, ctxSitemapUrls>>
sitemapFrame == <<chainVars, runnerVars, robotsVars, cacheVars, ctxVars,
                  moreVars>>
cacheFrame   == <<chainVars, runnerVars, robotsVars, sitemapVars, moreVars,
                  ctxRobotsTxt, ctxSitemapUrls>>
metadataFrame  == <<chainVars, runnerVars, robotsVars, sitemapVars, cacheVars,
                    redirectsVars, crawlVars, requestVars, extraVars,
                    ctxRobotsTxt, ctxSitemapUrls>>
redirectsFrame == <<runnerVars, robotsVars, sitemapVars, cacheVars, ctxVars,
                    metadataVars, crawlVars, requestVars, extraVars>>
crawlFrame     == <<chainVars, runnerVars, robotsVars, sitemapVars, cacheVars,
                    ctxVars, metadataVars, redirectsVars, requestVars,
                    extraVars>>
requestFrame   == <<chainVars, runnerVars, robotsVars, sitemapVars, cacheVars,
                    ctxVars, metadataVars, redirectsVars, crawlVars,
                    extraVars>>
diffFrame      == <<chainVars, runnerVars, robotsVars, sitemapVars, cacheVars,
                    ctxVars, metadataVars, redirectsVars, crawlVars,
                    requestVars, raceVars>>
raceFrame      == <<chainVars, runnerVars, robotsVars, sitemapVars, cacheVars,
                    ctxVars, metadataVars, redirectsVars, crawlVars,
                    requestVars, diffVars>>

None == "none"

\* an optional field of the context: undefined, or a value
Undefined == [defined |-> FALSE]

Some(v) == [defined |-> TRUE, value |-> v]

\* a context as runAudit creates it: no cached field is set
CtxEmpty ==
  /\ ctxRobotsTxt = Undefined /\ ctxHtml = Undefined
  /\ ctxHeaders = Undefined /\ ctxSitemapUrls = Undefined

(***************************************************************************)
(* followRedirectChain                                                     *)
(*                                                                         *)
(* URLs are natural numbers: 0 is the input URL, and the k-th URL that     *)
(* appears in a chain for the first time is named k.  A server response    *)
(* is drawn per request; since the function never requests a URL twice,    *)
(* this covers exactly the deterministic servers.  A Location header that  *)
(* new URL() cannot parse makes the function throw: its promise rejects.   *)
(***************************************************************************)
MAX_REDIRECTS == 20

NoResult == [kind |-> "none"]

\* the promise of followRedirectChain rejected (TypeError: Invalid URL)
Rejected == [kind |-> "rejected"]

\* res.headers.get('location') === null
NoLocation == [kind |-> "none", ref |-> 0]

\* a Location header naming its target absolutely
Absolute(u) == [kind |-> "absolute", ref |-> u]

\* a Location header naming its target relative to the requested URL
Relative(d) == [kind |-> "relative", ref |-> d]

\* a Location header that new URL(location, current) rejects, as "http://["
Unparsable == [kind |-> "unparsable", ref |-> 0]

\* status codes a server may answer with
Statuses == {200, 301, 404}

\* a test that follows every response carrying a Location header
IsRedirectResponseAnyStatus(status, location) == location # NoLocation

\* if (location && status >= 300 && status < 400)
IsRedirectResponse(status, location) ==
  location # NoLocation /\ status >= 300 /\ status < 400

\* new URL(location, current).href
ResolveLocation(location, current) ==
  IF location.kind = "absolute" THEN location.ref ELSE current + location.ref

\* Location values a server can send in answer to a request for current:
\* nothing, a reference (absolute or relative) to a URL already in the
\* chain or to a URL not seen before, or a value that is no URL reference
LocationChoices(seen, current) ==
  LET targets == seen \cup {Cardinality(seen)} IN
    {NoLocation, Unparsable} \cup {Absolute(u) : u \in targets}
                             \cup {Relative(u - current) : u \in targets}

ChainIdle ==
  /\ chPc = "idle" /\ chUrl = 0 /\ chCurrent = 0 /\ chHops = <<>>
  /\ chSeen = {} /\ chI = 0 /\ chRequests = <<>> /\ chLast = None
  /\ chResult = NoResult

ChainInit ==
  /\ chPc = "loop" /\ chUrl = 0 /\ chCurrent = 0 /\ chHops = <<>>
  /\ chSeen = {} /\ chI = 0 /\ chRequests = <<>> /\ chLast = None
  /\ chResult = NoResult

ChainReturn(circular) ==
  /\ chResult' = [kind |-> "chain", hops |-> chHops, finalUrl |-> chCurrent,
                  isCircular |-> circular]
  /\ chPc' = "done"

\* an off-by-one loop guard
LoopGuardInclusive(i) == i <= MAX_REDIRECTS

\* the loop guard  i < MAX_REDIRECTS
LoopGuard(i) == i < MAX_REDIRECTS

\* if (seen.has(current)) return { hops, finalUrl: current, isCircular: true }
ChainCircular ==
  /\ chPc = "loop" /\ LoopGuard(chI)
  /\ chCurrent \in chSeen
  /\ ChainReturn(TRUE)
  /\ UNCHANGED <<chUrl, chCurrent, chHops, chSeen, chI, chRequests, chLast>>
  /\ UNCHANGED chainFrame

\* seen.add(current); fetchWithoutRedirect throws -> break, then the
\* return after the loop
ChainFetchError ==
  /\ chPc = "loop" /\ LoopGuard(chI)
  /\ chCurrent \notin chSeen
  /\ chSeen' = chSeen \cup {chCurrent}
  /\ chRequests' = Append(chRequests, chCurrent)
  /\ chLast' = "error"
  /\ ChainReturn(FALSE)
  /\ UNCHANGED <<chUrl, chCurrent, chHops, chI>>
  /\ UNCHANGED chainFrame

\* seen.add(current); the response is a redirect: push the hop and go on
ChainRedirect ==
  /\ chPc = "loop" /\ LoopGuard(chI)
  /\ chCurrent \notin chSeen
  /\ \E status \in Statuses, location \in LocationChoices(chSeen \cup {chCurrent}, chCurrent) :
       /\ IsRedirectResponse(status, location) /\ location # Unparsable
       /\ LET resolved == ResolveLocation(location, chCurrent) IN
            /\ chHops' = Append(chHops, [url |-> chCurrent, status |-> status,
                                         location |-> resolved])
            /\ chCurrent' = resolved
  /\ chSeen' = chSeen \cup {chCurrent}
  /\ chRequests' = Append(chRequests, chCurrent)
  /\ chLast' = "redirect"
  /\ chI' = chI + 1
  /\ UNCHANGED <<chPc, chUrl, chResult>>
  /\ UNCHANGED chainFrame

\* seen.add(current); the response is a redirect whose Location header
\* new URL(location, current) rejects: the exception leaves the function
ChainThrew ==
  /\ chPc = "loop" /\ LoopGuard(chI)
  /\ chCurrent \notin chSeen
  /\ \E status \in Statuses : IsRedirectResponse(status, Unparsable)
  /\ chSeen' = chSeen \cup {chCurrent}
  /\ chRequests' = Append(chRequests, chCurrent)
  /\ chLast' = "unparsable"
  /\ chResult' = Rejected
  /\ chPc' = "rejected"
  /\ UNCHANGED <<chUrl, chCurrent, chHops, chI>>
  /\ UNCHANGED chainFrame

\* seen.add(current); the response is not a redirect: return
ChainFinal ==
  /\ chPc = "loop" /\ LoopGuard(chI)
  /\ chCurrent \notin chSeen
  /\ \E status \in Statuses, location \in LocationChoices(chSeen \cup {chCurrent}, chCurrent) :
       ~IsRedirectResponse(status, location)
  /\ chSeen' = chSeen \cup {chCurrent}
  /\ chRequests' = Append(chRequests, chCurrent)
  /\ chLast' = "final"
  /\ ChainReturn(FALSE)
  /\ UNCHANGED <<chUrl, chCurrent, chHops, chI>>
  /\ UNCHANGED chainFrame

\* the loop ran MAX_REDIRECTS times: return { ..., isCircular: false }
ChainExhausted ==
  /\ chPc = "loop" /\ ~LoopGuard(chI)
  /\ ChainReturn(FALSE)
  /\ UNCHANGED <<chUrl, chCurrent, chHops, chSeen, chI, chRequests, chLast>>
  /\ UNCHANGED chainFrame

ChainNext ==
  \/ ChainCircular
  \/ ChainFetchError
  \/ ChainRedirect
  \/ ChainThrew
  \/ ChainFinal
  \/ ChainExhausted

(***************************************************************************)
(* runAudit and runModules                                                 *)
(*                                                                         *)
(* An analyzer is a callback returning a promise.  runModules calls every  *)
(* analyzer of a phase synchronously inside modules.map, so a phase is     *)
(* launched in one step; the promises then settle one by one in any order. *)
(* A finding is carried by its severity, the only field runAudit reads.    *)
(***************************************************************************)
phase1Modules == <<"robots", "redirects">>

phase2Modules == <<"sitemap", "metadata", "favicon", "nextjs",
                   "structuredData", "i18n", "images", "security">>

phase3Modules == <<"crawl">>

Range(seq) == {seq[i] : i \in 1..Len(seq)}

Modules == Range(phase1Modules) \cup Range(phase2Modules) \cup Range(phase3Modules)

Severities == {"error", "warning", "info", "pass"}

Finding(sev) == [severity |-> sev]

\* a findings list per analyzer (the lists of runner.test.ts for robots,
\* metadata and sitemap, lists of the same shape for the others)
SampleFindings(m) ==
  CASE m = "robots"         -> <<Finding("error")>>
    [] m = "redirects"      -> <<Finding("warning"), Finding("info")>>
    [] m = "sitemap"        -> <<Finding("pass")>>
    [] m = "metadata"       -> <<Finding("warning"), Finding("info")>>
    [] m = "favicon"        -> <<>>
    [] m = "nextjs"         -> <<Finding("info"), Finding("info")>>
    [] m = "structuredData" -> <<Finding("warning"), Finding("pass")>>
    [] m = "i18n"           -> <<Finding("error"), Finding("warning")>>
    [] m = "images"         -> <<Finding("warning")>>
    [] m = "security"       -> <<Finding("info"), Finding("pass")>>
    [] m = "crawl"          -> <<Finding("error"), Finding("error")>>

\* what an analyzer's promise may fulfil with: its sample list, and for the
\* analyzers of phases 1 and 3 also the empty list
AnalyzerOutputs(m) ==
  IF m \in {"robots", "redirects", "crawl"}
    THEN {<<>>, SampleFindings(m)}
    ELSE {SampleFindings(m)}

Settled(m) == rnStatus[m] \in {"fulfilled", "rejected"}

\* the phase resolving as soon as one promise settled (Promise.race)
AnySettled(mods) == \E i \in 1..Len(mods) : Settled(mods[i])

\* Promise.allSettled: every promise of the phase has settled
AllSettled(mods) == \A i \in 1..Len(mods) : Settled(mods[i])

\* the results without the filter on 'fulfilled'
RECURSIVE UnfilteredResults(_, _, _)
UnfilteredResults(mods, status, findings) ==
  IF mods = <<>> THEN <<>>
  ELSE <<[module |-> Head(mods), findings |-> findings[Head(mods)]]>>
         \o UnfilteredResults(Tail(mods), status, findings)

\* the fulfilled results, the last module of the phase first
RECURSIVE FulfilledResultsReversed(_, _, _)
FulfilledResultsReversed(mods, status, findings) ==
  IF mods = <<>> THEN <<>>
  ELSE LET m == Head(mods)
           rest == FulfilledResultsReversed(Tail(mods), status, findings)
       IN IF status[m] = "fulfilled"
            THEN rest \o <<[module |-> m, findings |-> findings[m]]>>
            ELSE rest

\* results.filter(r => r.status === 'fulfilled').map(r => r.value)
RECURSIVE FulfilledResults(_, _, _)
FulfilledResults(mods, status, findings) ==
  IF mods = <<>> THEN <<>>
  ELSE LET m == Head(mods)
           rest == FulfilledResults(Tail(mods), status, findings)
       IN IF status[m] = "fulfilled"
            THEN <<[module |-> m, findings |-> findings[m]]>> \o rest
            ELSE rest

\* allModules.flatMap((m) => m.findings)
RECURSIVE FlatFindings(_)
FlatFindings(mods) ==
  IF mods = <<>> THEN <<>> ELSE Head(mods).findings \o FlatFindings(Tail(mods))

\* allFindings.filter((f) => f.severity === sev).length
CountSeverity(fs, sev) == Cardinality({i \in 1..Len(fs) : fs[i].severity = sev})

\* a summary whose passed counter filters on a severity that does not exist
SummaryWrongSeverity(allFindings) ==
  [errors   |-> CountSeverity(allFindings, "error"),
   warnings |-> CountSeverity(allFindings, "warning"),
   info     |-> CountSeverity(allFindings, "info"),
   passed   |-> CountSeverity(allFindings, "passed")]

\* const summary = { errors, warnings, info, passed }
Summary(allFindings) ==
  [errors   |-> CountSeverity(allFindings, "error"),
   warnings |-> CountSeverity(allFindings, "warning"),
   info     |-> CountSeverity(allFindings, "info"),
   passed   |-> CountSeverity(allFindings, "pass")]

\* return { url, timestamp, duration, summary, modules: allModules }
MakeReport(allModules) ==
  [kind |-> "report", summary |-> Summary(FlatFindings(allModules)),
   modules |-> allModules]

\* modules.map(async (mod) => { ... await mod.run(ctx) ... })
Launch(mods) ==
  rnStatus' = [m \in Modules |->
                 IF m \in Range(mods) THEN "running" ELSE rnStatus[m]]

RunnerIdle ==
  /\ rnPc = "idle" /\ rnCrawl = FALSE
  /\ rnStatus = [m \in Modules |-> "idle"]
  /\ rnFindings = [m \in Modules |-> <<>>]
  /\ rnAll = <<>> /\ rnReport = NoResult

RunnerInit ==
  /\ rnPc = "start" /\ rnCrawl \in BOOLEAN
  /\ rnStatus = [m \in Modules |-> "idle"]
  /\ rnFindings = [m \in Modules |-> <<>>]
  /\ rnAll = <<>> /\ rnReport = NoResult

\* runAudit up to the first await: build ctx, launch phase 1
RunAuditStart ==
  /\ rnPc = "start"
  /\ Launch(phase1Modules)
  /\ rnPc' = "phase1"
  /\ UNCHANGED <<rnCrawl, rnFindings, rnAll, rnReport>>
  /\ UNCHANGED runnerFrame

\* an analyzer's promise fulfils with a findings list
ModuleFulfil(m) ==
  /\ rnStatus[m] = "running"
  /\ \E fs \in AnalyzerOutputs(m) :
       rnFindings' = [rnFindings EXCEPT ![m] = fs]
  /\ rnStatus' = [rnStatus EXCEPT ![m] = "fulfilled"]
  /\ UNCHANGED <<rnPc, rnCrawl, rnAll, rnReport>>
  /\ UNCHANGED runnerFrame

\* an analyzer's promise rejects
ModuleReject(m) ==
  /\ rnStatus[m] = "running"
  /\ rnStatus' = [rnStatus EXCEPT ![m] = "rejected"]
  /\ UNCHANGED <<rnPc, rnCrawl, rnFindings, rnAll, rnReport>>
  /\ UNCHANGED runnerFrame

\* Promise.allSettled of phase 1 resolves; phase 2 is launched
AfterPhase1 ==
  /\ rnPc = "phase1" /\ AllSettled(phase1Modules)
  /\ rnAll' = FulfilledResults(phase1Modules, rnStatus, rnFindings)
  /\ Launch(phase2Modules)
  /\ rnPc' = "phase2"
  /\ UNCHANGED <<rnCrawl, rnFindings, rnReport>>
  /\ UNCHANGED runnerFrame

\* Promise.allSettled of phase 2 resolves and opts.crawl is set: launch crawl
AfterPhase2Crawl ==
  /\ rnPc = "phase2" /\ AllSettled(phase2Modules)
  /\ rnCrawl
  /\ rnAll' = rnAll \o FulfilledResults(phase2Modules, rnStatus, rnFindings)
  /\ Launch(phase3Modules)
  /\ rnPc' = "phase3"
  /\ UNCHANGED <<rnCrawl, rnFindings, rnReport>>
  /\ UNCHANGED runnerFrame

\* Promise.allSettled of phase 2 resolves and opts.crawl is undefined:
\* compute the summary and return the report
AfterPhase2Return ==
  /\ rnPc = "phase2" /\ AllSettled(phase2Modules)
  /\ ~rnCrawl
  /\ rnAll' = rnAll \o FulfilledResults(phase2Modules, rnStatus, rnFindings)
  /\ rnReport' = MakeReport(rnAll')
  /\ rnPc' = "done"
  /\ UNCHANGED <<rnCrawl, rnStatus, rnFindings>>
  /\ UNCHANGED runnerFrame

\* the crawl phase resolves: push its result, compute the summary, return
AfterPhase3 ==
  /\ rnPc = "phase3" /\ AllSettled(phase3Modules)
  /\ rnAll' = rnAll \o FulfilledResults(phase3Modules, rnStatus, rnFindings)
  /\ rnReport' = MakeReport(rnAll')
  /\ rnPc' = "done"
  /\ UNCHANGED <<rnCrawl, rnStatus, rnFindings>>
  /\ UNCHANGED runnerFrame

RunnerNext ==
  \/ RunAuditStart
  \/ \E m \in Modules : ModuleFulfil(m)
  \/ \E m \in Modules : ModuleReject(m)
  \/ AfterPhase1
  \/ AfterPhase2Crawl
  \/ AfterPhase2Return
  \/ AfterPhase3


(***************************************************************************)
(* auditRobots and parseRobotsTxt                                          *)
(*                                                                         *)
(* A robots.txt text is the sequence of its lines.  A line is given by     *)
(* what line.trim().split(':') makes of it: key is the text before the     *)
(* first colon, colon tells whether there is one, value is the trimmed     *)
(* text after it.  The empty text is the empty sequence.                   *)
(***************************************************************************)
MaxRobotsLines == 4

RobotsUrl == "https://example.com/robots.txt"

DeclaredSitemap == "https://example.com/sitemap.xml"

Line(key, colon, value) == [key |-> key, colon |-> colon, value |-> value]

RobotsLineChoices ==
  { Line("User-agent", TRUE, "*"),
    Line("user-agent", TRUE, "Googlebot"),
    Line("Disallow", TRUE, "/"),
    Line("Disallow", TRUE, ""),
    Line("Allow", TRUE, "/"),
    Line("Sitemap", TRUE, DeclaredSitemap),
    Line("# comment", FALSE, ""),
    Line("", FALSE, "") }

SeqsUpTo(S, n) == UNION {[1..k -> S] : k \in 0..n}

RobotsTexts == SeqsUpTo(RobotsLineChoices, MaxRobotsLines)

\* String.prototype.toLowerCase on the strings of the model
ToLowerCase(str) ==
  CASE str \in {"User-agent", "user-agent"} -> "user-agent"
    [] str = "Disallow"  -> "disallow"
    [] str = "Allow"     -> "allow"
    [] str = "Sitemap"   -> "sitemap"
    [] str = "Googlebot" -> "googlebot"
    [] OTHER -> str

\* line.startsWith('#') || line === ''
IsSkippedLine(line) ==
  \/ line.key = "# comment"
  \/ (line.key = "" /\ ~line.colon)

\* current.disallow.push(value) on the last rule
PushDisallow(rules, value) ==
  [rules EXCEPT ![Len(rules)].disallow = Append(@, value)]

\* current.allow.push(value) on the last rule
PushAllow(rules, value) ==
  [rules EXCEPT ![Len(rules)].allow = Append(@, value)]

\* the loop body of parseRobotsTxt; current is the last rule pushed
RECURSIVE ParseRobotsLines(_, _, _)
ParseRobotsLines(lines, rules, sitemaps) ==
  IF lines = <<>> THEN [rules |-> rules, sitemaps |-> sitemaps]
  ELSE
    LET line == Head(lines)
        rest == Tail(lines)
        value == line.value
        keyLower == ToLowerCase(line.key)
        current == rules # <<>>
    IN
      IF IsSkippedLine(line) THEN ParseRobotsLines(rest, rules, sitemaps)
      ELSE IF keyLower = "user-agent" THEN
        ParseRobotsLines(rest,
          Append(rules, [userAgent |-> value, disallow |-> <<>>, allow |-> <<>>]),
          sitemaps)
      ELSE IF keyLower = "disallow" /\ current THEN
        ParseRobotsLines(rest,
          IF value # "" THEN PushDisallow(rules, value) ELSE rules, sitemaps)
      ELSE IF keyLower = "allow" /\ current THEN
        ParseRobotsLines(rest,
          IF value # "" THEN PushAllow(rules, value) ELSE rules, sitemaps)
      ELSE IF keyLower = "sitemap" THEN
        ParseRobotsLines(rest, rules,
          IF value # "" THEN Append(sitemaps, value) ELSE sitemaps)
      ELSE ParseRobotsLines(rest, rules, sitemaps)

parseRobotsTxt(txt) == ParseRobotsLines(txt, <<>>, <<>>)

\* Array.prototype.includes
Includes(seq, x) == \E i \in 1..Len(seq) : seq[i] = x

RobotsFinding(code, severity) ==
  [code |-> code, severity |-> severity, url |-> RobotsUrl]

\* the findings of one rule in the loop "for (const rule of rules)"
RuleFindings(rule) ==
  LET ua == ToLowerCase(rule.userAgent) IN
    (IF ua = "*" /\ Includes(rule.disallow, "/")
       THEN <<RobotsFinding("ROBOTS_BLOCKS_ALL", "error")>> ELSE <<>>)
    \o
    (IF ua \in {"googlebot", "googlebot-news", "googlebot-image"}
          /\ Includes(rule.disallow, "/")
       THEN <<RobotsFinding("ROBOTS_BLOCKS_GOOGLEBOT", "error")>> ELSE <<>>)

RECURSIVE RulesFindings(_)
RulesFindings(rules) ==
  IF rules = <<>> THEN <<>>
  ELSE RuleFindings(Head(rules)) \o RulesFindings(Tail(rules))

\* auditRobots after a 200 response: parse, check the rules, check sitemaps
RobotsChecks(txt) ==
  LET parsed == parseRobotsTxt(txt) IN
    RulesFindings(parsed.rules)
    \o (IF Len(parsed.sitemaps) = 0
          THEN <<RobotsFinding("ROBOTS_NO_SITEMAP", "info")>> ELSE <<>>)

RobotsIdle ==
  rbPc = "idle" /\ rbBody = <<>> /\ rbOutcome = None /\ rbFindings = <<>>

RobotsInit ==
  rbPc = "fetch" /\ rbBody \in RobotsTexts /\ rbOutcome = None /\ rbFindings = <<>>

\* analyzers that all report a failed primary fetch with a finding
FetchFailureFindingsAlways(analyzer) ==
  <<[code |-> "HOMEPAGE_MISSING", severity |-> "warning", url |-> analyzer]>>

\* what the catch branch around the primary fetchPage of an analyzer pushes
FetchFailureFindings(analyzer) ==
  CASE analyzer = "robots" ->
         <<[code |-> "ROBOTS_MISSING", severity |-> "warning", url |-> RobotsUrl]>>
    [] analyzer = "sitemap" ->
         <<[code |-> "SITEMAP_MISSING", severity |-> "warning",
            url |-> "https://example.com/sitemap.xml"]>>
    [] OTHER -> <<>>

\* fetchPage throws: the catch branch
RobotsFetchFail ==
  /\ rbPc = "fetch"
  /\ rbFindings' = FetchFailureFindings("robots")
  /\ rbOutcome' = "threw"
  /\ rbPc' = "done"
  /\ UNCHANGED <<rbBody, ctxRobotsTxt>>
  /\ UNCHANGED robotsFrame

\* a handler that stores the body whatever the status
StoreRobotsTxtAlways(status, body, old) == Some(body)

\* if (res.status === 200) ctx.robotsTxt = res.body
StoreRobotsTxt(status, body, old) == IF status = 200 THEN Some(body) ELSE old

\* res.status !== 200
RobotsFetchNot200 ==
  /\ rbPc = "fetch"
  /\ \E status \in Statuses \ {200} :
       /\ ctxRobotsTxt' = StoreRobotsTxt(status, rbBody, ctxRobotsTxt)
       /\ rbFindings' = <<RobotsFinding("ROBOTS_MISSING", "warning")>>
  /\ rbOutcome' = "not200"
  /\ rbPc' = "done"
  /\ UNCHANGED rbBody
  /\ UNCHANGED robotsFrame

\* res.status === 200: store the text on ctx and run the checks
RobotsFetchOk ==
  /\ rbPc = "fetch"
  /\ ctxRobotsTxt' = StoreRobotsTxt(200, rbBody, ctxRobotsTxt)
  /\ rbFindings' = RobotsChecks(rbBody)
  /\ rbOutcome' = "ok"
  /\ rbPc' = "done"
  /\ UNCHANGED rbBody
  /\ UNCHANGED robotsFrame

RobotsNext ==
  \/ RobotsFetchFail
  \/ RobotsFetchNot200
  \/ RobotsFetchOk

(***************************************************************************)
(* auditSitemap and parseSitemapXml                                        *)
(*                                                                         *)
(* A sitemap document is given by its root element and the loc values of   *)
(* its entries in document order ("" for an entry without loc).            *)
(***************************************************************************)
SITEMAP_SAMPLE_SIZE == 10

MaxEntries == 11

SitemapUrl == "https://example.com/sitemap.xml"

MovedSitemapUrl == "https://example.com/sitemap_index.xml"

OtherSitemapUrl == "https://cdn.example.com/sitemap.xml"

ChildSitemaps == <<"https://example.com/sitemap-1.xml",
                   "https://example.com/sitemap-2.xml">>

PageUrls == <<"https://example.com/p1", "https://example.com/p2",
              "https://example.com/p3", "https://example.com/p4",
              "https://example.com/p5", "https://example.com/p6",
              "https://example.com/p7", "https://example.com/p8",
              "https://example.com/p9", "https://example.com/p10",
              "https://example.com/p11", "https://example.com/p12",
              "https://example.com/p13">>

Doc(root, locs) == [root |-> root, locs |-> locs]

SitemapDocs ==
  {Doc("urlset", SubSeq(PageUrls, 1, n)) : n \in 0..MaxEntries}
  \cup {Doc("urlset", <<PageUrls[1], "", PageUrls[2]>>), Doc("urlset", <<"">>)}
  \cup {Doc("sitemapindex", SubSeq(ChildSitemaps, 1, k)) : k \in 0..2}
  \cup {Doc("html", <<>>), Doc("malformed", <<>>)}

ParseError == [type |-> "error", urls |-> <<>>, sitemaps |-> <<>>]

\* if (entry.loc) push
RECURSIVE NonEmptyLocs(_)
NonEmptyLocs(locs) ==
  IF locs = <<>> THEN <<>>
  ELSE (IF Head(locs) # "" THEN <<Head(locs)>> ELSE <<>>)
         \o NonEmptyLocs(Tail(locs))

\* parseSitemapXml; a document the XML parser rejects makes it throw
parseSitemapXml(doc) ==
  IF doc.root = "malformed" THEN ParseError
  ELSE IF doc.root = "sitemapindex" /\ doc.locs # <<>> THEN
    [type |-> "sitemapindex", urls |-> <<>>, sitemaps |-> NonEmptyLocs(doc.locs)]
  ELSE IF doc.root = "urlset" /\ doc.locs # <<>> THEN
    [type |-> "urlset", urls |-> NonEmptyLocs(doc.locs), sitemaps |-> <<>>]
  ELSE [type |-> "urlset", urls |-> <<>>, sitemaps |-> <<>>]

Min(a, b) == IF a < b THEN a ELSE b

\* parsed.urls.slice(0, SITEMAP_SAMPLE_SIZE)
Sample(urls) == SubSeq(urls, 1, Min(Len(urls), SITEMAP_SAMPLE_SIZE))

SitemapFinding(code, severity, url) ==
  [code |-> code, severity |-> severity, url |-> url]

\* the Sitemap: values the cross-check reads from ctx.robotsTxt
RECURSIVE RobotsSitemaps(_)
RobotsSitemaps(txt) ==
  IF txt = <<>> THEN <<>>
  ELSE (IF ToLowerCase(Head(txt).key) = "sitemap" /\ Head(txt).colon
          THEN <<Head(txt).value>> ELSE <<>>)
         \o RobotsSitemaps(Tail(txt))

\* a cross-check against the default sitemap URL alone
RobotsMismatchDefaultOnly(robotsTxt, finalUrl) ==
  IF robotsTxt # Undefined /\ robotsTxt.value # <<>> THEN
    LET robotsSitemaps == RobotsSitemaps(robotsTxt.value) IN
      IF Len(robotsSitemaps) > 0 /\ ~Includes(robotsSitemaps, SitemapUrl)
        THEN <<SitemapFinding("SITEMAP_ROBOTS_MISMATCH", "info", SitemapUrl)>>
        ELSE <<>>
  ELSE <<>>

\* step 6: cross-reference with the robots.txt Sitemap directive
RobotsMismatch(robotsTxt, finalUrl) ==
  IF robotsTxt # Undefined /\ robotsTxt.value # <<>> THEN
    LET robotsSitemaps == RobotsSitemaps(robotsTxt.value) IN
      IF /\ Len(robotsSitemaps) > 0
         /\ ~Includes(robotsSitemaps, SitemapUrl)
         /\ ~Includes(robotsSitemaps, finalUrl)
        THEN <<SitemapFinding("SITEMAP_ROBOTS_MISMATCH", "info", SitemapUrl)>>
        ELSE <<>>
  ELSE <<>>

\* what phase 1 may have left in ctx.robotsTxt
CachedRobotsChoices ==
  { Undefined, Some(<<>>),
    Some(<<Line("User-agent", TRUE, "*"), Line("Sitemap", TRUE, SitemapUrl)>>),
    Some(<<Line("Sitemap", TRUE, MovedSitemapUrl)>>),
    Some(<<Line("Sitemap", TRUE, OtherSitemapUrl)>>),
    Some(<<Line("sitemap", TRUE, OtherSitemapUrl),
           Line("Sitemap", TRUE, SitemapUrl)>>),
    Some(<<Line("User-agent", TRUE, "*"), Line("Disallow", TRUE, "")>>) }

NoChain == [hops |-> 0, finalUrl |-> ""]

SitemapIdle ==
  /\ smPc = "idle" /\ smChain = NoChain /\ smDoc = Doc("html", <<>>)
  /\ smParsed = ParseError /\ smIdx = 0 /\ smErrorCount = 0
  /\ smFindings = <<>> /\ smPageFetches = <<>> /\ smHeadFetches = <<>>
  /\ smHeadOutcomes = {} /\ smOutcome = None

SitemapInit ==
  /\ smPc = "chain" /\ smChain = NoChain /\ smDoc \in SitemapDocs
  /\ smParsed = ParseError /\ smIdx = 0 /\ smErrorCount = 0
  /\ smFindings = <<>> /\ smPageFetches = <<>> /\ smHeadFetches = <<>>
  /\ smHeadOutcomes = {} /\ smOutcome = None

SitemapReturn(findings) ==
  /\ smFindings' = findings
  /\ smPc' = "done"

\* 1. followRedirectChain(sitemapUrl) returns; a redirected sitemap is
\* reported and the analysis goes on
SitemapChain ==
  /\ smPc = "chain"
  /\ \E chain \in {[hops |-> 0, finalUrl |-> SitemapUrl],
                   [hops |-> 1, finalUrl |-> MovedSitemapUrl]} :
       /\ smChain' = chain
       /\ smFindings' =
            IF chain.hops > 0
              THEN <<SitemapFinding("SITEMAP_REDIRECTED", "warning", SitemapUrl)>>
              ELSE <<>>
  /\ smPageFetches' = Append(smPageFetches, SitemapUrl)
  /\ smPc' = "fetch"
  /\ UNCHANGED <<smDoc, smParsed, smIdx, smErrorCount, smHeadFetches,
                 smHeadOutcomes>>
  /\ UNCHANGED smOutcome
  /\ UNCHANGED sitemapFrame

\* 1. followRedirectChain(sitemapUrl) throws on a Location header that is
\* no URL; the await stands outside any try, so the promise of auditSitemap
\* rejects before a finding is pushed or fetchPage is called
SitemapChainThrew ==
  /\ smPc = "chain"
  /\ smPc' = "rejected"
  /\ UNCHANGED <<smChain, smDoc, smParsed, smIdx, smErrorCount, smFindings,
                 smPageFetches, smHeadFetches, smHeadOutcomes>>
  /\ UNCHANGED smOutcome
  /\ UNCHANGED sitemapFrame

\* 2. fetchPage throws
SitemapFetchFail ==
  /\ smPc = "fetch"
  /\ SitemapReturn(smFindings \o FetchFailureFindings("sitemap"))
  /\ UNCHANGED <<smChain, smDoc, smParsed, smIdx, smErrorCount,
                 smPageFetches, smHeadFetches, smHeadOutcomes>>
  /\ smOutcome' = "threw"
  /\ UNCHANGED sitemapFrame

\* 2. res.status !== 200
SitemapFetchNot200 ==
  /\ smPc = "fetch"
  /\ \E status \in Statuses \ {200} :
       SitemapReturn(Append(smFindings,
         SitemapFinding("SITEMAP_MISSING", "warning", SitemapUrl)))
  /\ UNCHANGED <<smChain, smDoc, smParsed, smIdx, smErrorCount,
                 smPageFetches, smHeadFetches, smHeadOutcomes>>
  /\ smOutcome' = "not200"
  /\ UNCHANGED sitemapFrame

\* 2. status 200 and parseSitemapXml throws
SitemapInvalidXml ==
  /\ smPc = "fetch"
  /\ parseSitemapXml(smDoc) = ParseError
  /\ SitemapReturn(Append(smFindings,
       SitemapFinding("SITEMAP_MISSING", "error", SitemapUrl)))
  /\ UNCHANGED <<smChain, smDoc, smParsed, smIdx, smErrorCount,
                 smPageFetches, smHeadFetches, smHeadOutcomes>>
  /\ smOutcome' = "ok"
  /\ UNCHANGED sitemapFrame

\* 3. status 200 and the document is a sitemap index
SitemapIndex ==
  /\ smPc = "fetch"
  /\ LET parsed == parseSitemapXml(smDoc) IN
       /\ parsed.type = "sitemapindex"
       /\ smParsed' = parsed
  /\ SitemapReturn(Append(smFindings,
       SitemapFinding("SITEMAP_MISSING", "pass", SitemapUrl)))
  /\ UNCHANGED <<smChain, smDoc, smIdx, smErrorCount,
                 smPageFetches, smHeadFetches, smHeadOutcomes>>
  /\ smOutcome' = "ok"
  /\ UNCHANGED sitemapFrame

\* 4. status 200 and the url set has no entry
SitemapEmpty ==
  /\ smPc = "fetch"
  /\ LET parsed == parseSitemapXml(smDoc) IN
       /\ parsed.type = "urlset" /\ Len(parsed.urls) = 0
       /\ smParsed' = parsed
  /\ SitemapReturn(Append(smFindings,
       SitemapFinding("SITEMAP_EMPTY", "warning", SitemapUrl)))
  /\ UNCHANGED <<smChain, smDoc, smIdx, smErrorCount,
                 smPageFetches, smHeadFetches, smHeadOutcomes>>
  /\ smOutcome' = "ok"
  /\ UNCHANGED sitemapFrame

\* 5. status 200 and the url set has entries: enter the sampling loop
SitemapUrlset ==
  /\ smPc = "fetch"
  /\ LET parsed == parseSitemapXml(smDoc) IN
       /\ parsed.type = "urlset" /\ Len(parsed.urls) > 0
       /\ smParsed' = parsed
  /\ smIdx' = 1
  /\ smPc' = "sample"
  /\ UNCHANGED <<smChain, smDoc, smErrorCount, smFindings,
                 smPageFetches, smHeadFetches, smHeadOutcomes>>
  /\ smOutcome' = "ok"
  /\ UNCHANGED sitemapFrame

\* a check that also counts redirect statuses as errors
IsErrorStatusFrom300(status) == status >= 300

\* if (status >= 400)
IsErrorStatus(status) == status >= 400

\* how a fetchHead call that returned is classed in smHeadOutcomes
StatusClass(status) == IF status < 400 THEN "below400" ELSE "atLeast400"

\* 5. fetchHead(entry.loc) returns a status
SitemapHead ==
  /\ smPc = "sample" /\ smIdx <= Len(Sample(smParsed.urls))
  /\ LET loc == Sample(smParsed.urls)[smIdx] IN
       /\ smHeadFetches' = Append(smHeadFetches, loc)
       /\ \E status \in Statuses :
            /\ smHeadOutcomes' = smHeadOutcomes \cup {StatusClass(status)}
            /\ IF IsErrorStatus(status)
                 THEN /\ smErrorCount' = smErrorCount + 1
                      /\ smFindings' = Append(smFindings,
                           SitemapFinding("SITEMAP_URL_ERROR", "warning", loc))
                 ELSE UNCHANGED <<smErrorCount, smFindings>>
  /\ smIdx' = smIdx + 1
  /\ UNCHANGED <<smPc, smChain, smDoc, smParsed, smPageFetches>>
  /\ UNCHANGED smOutcome
  /\ UNCHANGED sitemapFrame

\* 5. fetchHead(entry.loc) throws: the entry is skipped
SitemapHeadFail ==
  /\ smPc = "sample" /\ smIdx <= Len(Sample(smParsed.urls))
  /\ smHeadFetches' = Append(smHeadFetches, Sample(smParsed.urls)[smIdx])
  /\ smHeadOutcomes' = smHeadOutcomes \cup {"threw"}
  /\ smIdx' = smIdx + 1
  /\ UNCHANGED <<smPc, smChain, smDoc, smParsed, smErrorCount, smFindings,
                 smPageFetches>>
  /\ UNCHANGED smOutcome
  /\ UNCHANGED sitemapFrame

\* after the loop: the aggregate pass, the robots.txt cross-check, return
SitemapFinish ==
  /\ smPc = "sample" /\ smIdx > Len(Sample(smParsed.urls))
  /\ SitemapReturn(
       smFindings
       \o (IF smErrorCount = 0
             THEN <<SitemapFinding("SITEMAP_MISSING", "pass", SitemapUrl)>>
             ELSE <<>>)
       \o RobotsMismatch(ctxRobotsTxt, smChain.finalUrl))
  /\ UNCHANGED <<smChain, smDoc, smParsed, smIdx, smErrorCount,
                 smPageFetches, smHeadFetches, smHeadOutcomes>>
  /\ UNCHANGED smOutcome
  /\ UNCHANGED sitemapFrame

SitemapNext ==
  \/ SitemapChain
  \/ SitemapChainThrew
  \/ SitemapFetchFail
  \/ SitemapFetchNot200
  \/ SitemapInvalidXml
  \/ SitemapIndex
  \/ SitemapEmpty
  \/ SitemapUrlset
  \/ SitemapHead
  \/ SitemapHeadFail
  \/ SitemapFinish

(***************************************************************************)
(* The analyzers that need the homepage HTML                               *)
(*                                                                         *)
(* Each analyzer is an async function; between its awaits it runs without  *)
(* interruption, so one action is the code from one await to the next.     *)
(* What the analyzers do with the HTML afterwards does not touch ctx.html  *)
(* or ctx.headers and is left out.                                         *)
(***************************************************************************)
HtmlAnalyzers == {"metadata", "favicon", "structuredData", "i18n", "images",
                  "performance"}

Bodies == {"", "<html>A</html>", "<html>B</html>"}

HeaderSets == {[server |-> "Vercel", xPoweredBy |-> "Next.js"],
               [server |-> "nginx", xPoweredBy |-> ""]}

Responses == [body : Bodies, headers : HeaderSets]

\* a server whose homepage changes between two requests of one run
ChangingResponses ==
  {[body |-> "<html>A</html>",
    headers |-> [server |-> "Vercel", xPoweredBy |-> "Next.js"]],
   [body |-> "<html>B</html>",
    headers |-> [server |-> "nginx", xPoweredBy |-> ""]]}

\* if (ctx.html) / if (!html): defined and not the empty string
Truthy(field) == field # Undefined /\ field.value # ""

\* the analyzers whose code reads ctx.html before it decides to fetch;
\* auditMetadata calls fetchPage unconditionally
ReadsCacheFirst(a) == a # "metadata"

\* the analyzers whose code awaits something else before it reads ctx.html:
\* auditFavicon awaits fetchHead(/favicon.ico) first
AwaitsBeforeRead(a) == a = "favicon"

\* the analyzers that assign the fetched body to ctx.html
WritesHtml(a) == a \in {"metadata", "structuredData", "i18n", "images"}

\* the analyzers that assign the fetched headers to ctx.headers
WritesHeaders(a) == a \in {"metadata", "i18n"}

\* an analyzer storing a trimmed copy of the body instead of the body
TrimmedHtml(a, body) ==
  IF a = "images" /\ body = "<html>A</html>" THEN "<html>A" ELSE body

\* html = page.body; ctx.html = html
CachedHtml(a, body) == body

\* Object.fromEntries(headers.entries())
CachedHeaders(a, headers) == headers

CacheIdle ==
  /\ srvResponses = {}
  /\ caPc = [a \in HtmlAnalyzers |-> "idle"]
  /\ caRead = [a \in HtmlAnalyzers |-> "no"]
  /\ caGot = [a \in HtmlAnalyzers |-> Undefined]
  /\ caWrote = [a \in HtmlAnalyzers |-> Undefined]
  /\ caHtmlWrites = {} /\ caHeaderWrites = {}

CacheInit ==
  /\ srvResponses \in {{r} : r \in Responses} \cup {ChangingResponses}
  /\ caPc = [a \in HtmlAnalyzers |-> "idle"]
  /\ caRead = [a \in HtmlAnalyzers |-> "no"]
  /\ caGot = [a \in HtmlAnalyzers |-> Undefined]
  /\ caWrote = [a \in HtmlAnalyzers |-> Undefined]
  /\ caHtmlWrites = {} /\ caHeaderWrites = {}

\* the read of ctx.html: continue with the cached HTML, or call fetchPage
ReadCache(a) ==
  IF Truthy(ctxHtml)
    THEN /\ caRead' = [caRead EXCEPT ![a] = "present"]
         /\ caPc' = [caPc EXCEPT ![a] = "done"]
    ELSE /\ caRead' = [caRead EXCEPT ![a] = "absent"]
         /\ caPc' = [caPc EXCEPT ![a] = "fetch"]

\* the analyzer is called and runs to its first await
AnalyzerStart(a) ==
  /\ caPc[a] = "idle"
  /\ IF AwaitsBeforeRead(a)
       THEN caPc' = [caPc EXCEPT ![a] = "head"] /\ UNCHANGED caRead
       ELSE IF ReadsCacheFirst(a)
         THEN ReadCache(a)
         ELSE caPc' = [caPc EXCEPT ![a] = "fetch"] /\ UNCHANGED caRead
  /\ UNCHANGED <<srvResponses, caGot, caWrote, caHtmlWrites, caHeaderWrites,
                 ctxHtml, ctxHeaders>>
  /\ UNCHANGED cacheFrame

\* auditFavicon: fetchHead(/favicon.ico) settled, now let html = ctx.html
FaviconHeadSettled ==
  /\ caPc["favicon"] = "head"
  /\ ReadCache("favicon")
  /\ UNCHANGED <<srvResponses, caGot, caWrote, caHtmlWrites, caHeaderWrites,
                 ctxHtml, ctxHeaders>>
  /\ UNCHANGED cacheFrame

\* fetchPage(normalizedUrl) resolved: take the body, write the cache as the
\* analyzer's code does
AnalyzerFetched(a) ==
  /\ caPc[a] = "fetch"
  /\ \E page \in srvResponses :
       /\ caGot' = [caGot EXCEPT ![a] = Some(page.body)]
       /\ IF WritesHtml(a)
            THEN /\ ctxHtml' = Some(CachedHtml(a, page.body))
                 /\ caWrote' = [caWrote EXCEPT ![a] = Some(CachedHtml(a, page.body))]
                 /\ caHtmlWrites' = caHtmlWrites \cup {CachedHtml(a, page.body)}
            ELSE UNCHANGED <<ctxHtml, caWrote, caHtmlWrites>>
       /\ IF WritesHeaders(a)
            THEN /\ ctxHeaders' = Some(CachedHeaders(a, page.headers))
                 /\ caHeaderWrites' = caHeaderWrites \cup {CachedHeaders(a, page.headers)}
            ELSE UNCHANGED <<ctxHeaders, caHeaderWrites>>
  /\ caPc' = [caPc EXCEPT ![a] = "done"]
  /\ UNCHANGED <<srvResponses, caRead>>
  /\ UNCHANGED cacheFrame

\* fetchPage(normalizedUrl) rejected: catch { return findings }
AnalyzerFetchFailed(a) ==
  /\ caPc[a] = "fetch"
  /\ caPc' = [caPc EXCEPT ![a] = "done"]
  /\ UNCHANGED <<srvResponses, caRead, caGot, caWrote, caHtmlWrites,
                 caHeaderWrites, ctxHtml, ctxHeaders>>
  /\ UNCHANGED cacheFrame

CacheNext ==
  \/ \E a \in HtmlAnalyzers : AnalyzerStart(a)
  \/ FaviconHeadSettled
  \/ \E a \in HtmlAnalyzers : AnalyzerFetched(a)
  \/ \E a \in HtmlAnalyzers : AnalyzerFetchFailed(a)

(***************************************************************************)
(* auditMetadata                                                           *)
(*                                                                         *)
(* The homepage is given by what the html-parser helpers extract from it   *)
(* ("" for a tag that is absent) and by its response headers.              *)
(***************************************************************************)
NormalizedUrl == "https://example.com/"

CompletePage ==
  [body |-> "<html>complete</html>", finalUrl |-> NormalizedUrl,
   xRobotsTag |-> "", noindex |-> FALSE,
   canonical |-> "https://example.com/", charset |-> "utf-8",
   viewport |-> "width=device-width", title |-> "Home",
   description |-> "A site", ogTitle |-> "Home", ogDescription |-> "A site",
   ogImage |-> "https://example.com/og.png", twitterCard |-> "summary",
   twitterImage |-> "https://example.com/tw.png"]

BarePage ==
  [body |-> "<html></html>", finalUrl |-> NormalizedUrl,
   xRobotsTag |-> "", noindex |-> FALSE, canonical |-> "", charset |-> "",
   viewport |-> "", title |-> "", description |-> "", ogTitle |-> "",
   ogDescription |-> "", ogImage |-> "", twitterCard |-> "",
   twitterImage |-> ""]

\* the homepages the server may hold
HomePages ==
  { CompletePage, BarePage,
    [CompletePage EXCEPT !.body = "<html>noindex</html>", !.noindex = TRUE,
                         !.xRobotsTag = "NoIndex, nofollow"],
    [CompletePage EXCEPT !.body = "<html>relative</html>", !.canonical = "/",
                         !.ogImage = "/og.png", !.twitterImage = "/tw.png"],
    [CompletePage EXCEPT !.body = "<html>moved</html>",
                         !.finalUrl = "https://www.example.com/",
                         !.canonical = "https://www.example.com/"],
    [CompletePage EXCEPT !.body = "<html>moved, old canonical</html>",
                         !.finalUrl = "https://www.example.com/",
                         !.canonical = "https://example.com/"],
    [CompletePage EXCEPT !.body = "<html>other</html>",
                         !.canonical = "https://example.com/home",
                         !.twitterImage = ""],
    [CompletePage EXCEPT !.body = "<html>invalid</html>",
                         !.canonical = "http://[", !.ogImage = ""] }

\* xRobots.toLowerCase().includes('noindex')
HeaderHasNoindex(value) == value \in {"noindex", "NoIndex, nofollow"}

\* startsWith('http://') || startsWith('https://')
StartsWithHttp(ref) ==
  ref \in {"https://example.com/", "https://www.example.com/",
           "https://example.com/home", "https://example.com/og.png",
           "https://example.com/tw.png", "http://["}

\* the origin of an absolute URL
UrlOrigin(url) ==
  IF url = "https://www.example.com/" THEN "https://www.example.com"
  ELSE "https://example.com"

\* new URL(ref, base).href; "invalid" stands for the TypeError it throws
ResolveHref(ref, base) ==
  IF ref = "http://[" THEN "invalid"
  ELSE IF StartsWithHttp(ref) THEN ref
  ELSE IF ref = "/" THEN UrlOrigin(base) \o "/"
  ELSE UrlOrigin(base) \o ref

MetaFinding(code, severity) ==
  [code |-> code, severity |-> severity, url |-> NormalizedUrl]

\* if (!value) push
IfMissing(value, code, severity) ==
  IF value = "" THEN <<MetaFinding(code, severity)>> ELSE <<>>

\* a comparison of the canonical with the final URL alone
CanonicalMatchesFinalOnly(canonicalFull, finalUrl) == canonicalFull = finalUrl

\* !(canonicalFull !== finalUrl && canonicalFull !== normalizedUrl)
CanonicalMatches(canonicalFull, finalUrl) ==
  canonicalFull = finalUrl \/ canonicalFull = NormalizedUrl

\* 3. canonical URL checks
CanonicalFindings(page) ==
  IF page.canonical = "" THEN <<MetaFinding("CANONICAL_MISSING", "warning")>>
  ELSE
    LET canonicalFull == ResolveHref(page.canonical, page.finalUrl) IN
      IF canonicalFull = "invalid" THEN <<>>
      ELSE
        (IF ~CanonicalMatches(canonicalFull, page.finalUrl)
           THEN <<MetaFinding("CANONICAL_MISMATCH", "warning")>> ELSE <<>>)
        \o (IF UrlOrigin(canonicalFull) # UrlOrigin(NormalizedUrl)
              THEN <<MetaFinding("CANONICAL_EXTERNAL", "info")>> ELSE <<>>)

\* checks 1 to 8a: everything up to the og:image request
ChecksBeforeOgHead(page) ==
  (IF page.noindex THEN <<MetaFinding("NOINDEX_DETECTED", "error")>> ELSE <<>>)
  \o (IF HeaderHasNoindex(page.xRobotsTag)
        THEN <<MetaFinding("X_ROBOTS_NOINDEX", "error")>> ELSE <<>>)
  \o CanonicalFindings(page)
  \o IfMissing(page.charset, "CHARSET_MISSING", "info")
  \o IfMissing(page.viewport, "VIEWPORT_MISSING", "warning")
  \o IfMissing(page.title, "TITLE_MISSING", "warning")
  \o IfMissing(page.description, "DESCRIPTION_MISSING", "info")
  \o IfMissing(page.ogTitle, "OG_TITLE_MISSING", "info")
  \o IfMissing(page.ogDescription, "OG_DESCRIPTION_MISSING", "info")
  \o IfMissing(page.ogImage, "OG_IMAGE_MISSING", "info")
  \o (IF page.ogImage # "" /\ ~StartsWithHttp(page.ogImage)
        THEN <<MetaFinding("OG_IMAGE_RELATIVE", "warning")>> ELSE <<>>)

\* check 9 up to the twitter:image request
ChecksBeforeTwitterHead(page) ==
  IfMissing(page.twitterCard, "TWITTER_CARD_MISSING", "info")
  \o IfMissing(page.twitterImage, "TWITTER_IMAGE_MISSING", "info")

\* if (status < 200 || status >= 300)
IsNot2xx(status) == status < 200 \/ status >= 300

MetadataIdle ==
  mdPc = "idle" /\ mdPage = BarePage /\ mdFetch = None /\ mdFindings = <<>>

MetadataInit ==
  mdPc = "fetch" /\ mdPage \in HomePages /\ mdFetch = None /\ mdFindings = <<>>

\* after the og:image part: run check 9 and stop at the next await
ContinueToTwitter(findings) ==
  /\ mdFindings' = findings \o ChecksBeforeTwitterHead(mdPage)
  /\ mdPc' = IF mdPage.twitterImage # "" THEN "twitterHead" ELSE "done"

\* fetchPage(normalizedUrl) rejected: catch { return findings }
MetaFetchFailed ==
  /\ mdPc = "fetch"
  /\ mdFetch' = "threw"
  /\ mdFindings' = mdFindings \o FetchFailureFindings("metadata")
  /\ mdPc' = "done"
  /\ UNCHANGED <<mdPage, ctxHtml, ctxHeaders>>
  /\ UNCHANGED metadataFrame

\* fetchPage(normalizedUrl) resolved: fill the cache, run the checks up to
\* the next await
MetaFetched ==
  /\ mdPc = "fetch"
  /\ mdFetch' = "ok"
  /\ ctxHtml' = Some(mdPage.body)
  /\ ctxHeaders' = Some([xRobotsTag |-> mdPage.xRobotsTag])
  /\ IF mdPage.ogImage # ""
       THEN /\ mdFindings' = ChecksBeforeOgHead(mdPage)
            /\ mdPc' = "ogHead"
       ELSE ContinueToTwitter(ChecksBeforeOgHead(mdPage))
  /\ UNCHANGED mdPage
  /\ UNCHANGED metadataFrame

\* 8b. fetchHead(og:image) returned a status
MetaOgHead ==
  /\ mdPc = "ogHead"
  /\ \E status \in Statuses :
       ContinueToTwitter(
         mdFindings \o (IF IsNot2xx(status)
                          THEN <<MetaFinding("OG_IMAGE_BROKEN", "warning")>>
                          ELSE <<>>))
  /\ UNCHANGED <<mdPage, mdFetch, ctxHtml, ctxHeaders>>
  /\ UNCHANGED metadataFrame

\* 8b. fetchHead(og:image) threw
MetaOgHeadFailed ==
  /\ mdPc = "ogHead"
  /\ ContinueToTwitter(Append(mdFindings, MetaFinding("OG_IMAGE_BROKEN", "warning")))
  /\ UNCHANGED <<mdPage, mdFetch, ctxHtml, ctxHeaders>>
  /\ UNCHANGED metadataFrame

\* 9a. fetchHead(twitter:image) returned a status
MetaTwitterHead ==
  /\ mdPc = "twitterHead"
  /\ \E status \in Statuses :
       mdFindings' =
         mdFindings \o (IF IsNot2xx(status)
                          THEN <<MetaFinding("TWITTER_IMAGE_BROKEN", "warning")>>
                          ELSE <<>>)
  /\ mdPc' = "done"
  /\ UNCHANGED <<mdPage, mdFetch, ctxHtml, ctxHeaders>>
  /\ UNCHANGED metadataFrame

\* 9a. fetchHead(twitter:image) threw
MetaTwitterHeadFailed ==
  /\ mdPc = "twitterHead"
  /\ mdFindings' = Append(mdFindings, MetaFinding("TWITTER_IMAGE_BROKEN", "warning"))
  /\ mdPc' = "done"
  /\ UNCHANGED <<mdPage, mdFetch, ctxHtml, ctxHeaders>>
  /\ UNCHANGED metadataFrame

(***************************************************************************)
(* auditRedirects                                                          *)
(*                                                                         *)
(* Every followRedirectChain call of the analyzer is run by the actions    *)
(* of followRedirectChain above: the analyzer starts the chain, the chain  *)
(* actions run it, and the analyzer goes on when the chain has returned.   *)
(***************************************************************************)
COMMON_PAGES == <<"/about", "/contact", "/blog", "/pricing">>

\* new URL(url).protocol === 'https:'
isHttps(url) == url # "http://example.com/blog"

\* parsed.protocol = 'http:'
toHttpUrl(url) ==
  CASE url = "https://example.com/" -> "http://example.com/"
    [] url = "https://example.com/blog" -> "http://example.com/blog"
    [] url = "https://example.com/blog/" -> "http://example.com/blog/"
    [] OTHER -> url

\* pathname.length > 1 && pathname.endsWith('/')
hasTrailingSlash(url) == url = "https://example.com/blog/"

addTrailingSlash(url) ==
  CASE url = "https://example.com/blog" -> "https://example.com/blog/"
    [] url = "http://example.com/blog" -> "http://example.com/blog/"
    [] OTHER -> url

removeTrailingSlash(url) ==
  IF url = "https://example.com/blog/" THEN "https://example.com/blog" ELSE url

getOrigin(url) == IF isHttps(url) THEN "https://example.com" ELSE "http://example.com"

RedirectFinding(code, severity, url) ==
  [code |-> code, severity |-> severity, url |-> url]

\* what is kept of the homepage chain: whether it is circular, and its
\* number of hops counted up to two
ChainSummary(chain) ==
  [isCircular |-> chain.isCircular, hops |-> Min(Len(chain.hops), 2)]

\* a report that takes any redirect of the homepage for a chain
HomeChainFindingsFromOneHop(chain, url) ==
  IF chain.isCircular THEN <<RedirectFinding("REDIRECT_LOOP", "error", url)>>
  ELSE IF Len(chain.hops) > 0
    THEN <<RedirectFinding("REDIRECT_CHAIN", "warning", url)>>
  ELSE <<>>

\* 1. the findings for the homepage chain
HomeChainFindings(chain, url) ==
  IF chain.isCircular THEN <<RedirectFinding("REDIRECT_LOOP", "error", url)>>
  ELSE IF Len(chain.hops) > 1
    THEN <<RedirectFinding("REDIRECT_CHAIN", "warning", url)>>
  ELSE <<>>

\* 2. the finding for the chain of the HTTP variant
HttpChainFindings(finalIsHttps, httpUrl) ==
  IF finalIsHttps
    THEN <<RedirectFinding("HTTP_TO_HTTPS_REDIRECT", "pass", httpUrl)>>
    ELSE <<RedirectFinding("HTTP_NO_HTTPS_REDIRECT", "warning", httpUrl)>>

\* the schemes the final URL of a chain started on an http URL can have: the
\* start URL itself is http, any other URL is the server's choice
FinalIsHttpsChoices(chain) == IF chain.finalUrl = 0 THEN {FALSE} ELSE BOOLEAN

\* 3. the URL of the trailing slash probe
SlashTestUrl(url) ==
  IF hasTrailingSlash(url) THEN removeTrailingSlash(url) ELSE addTrailingSlash(url)

\* ctx.pages ?? COMMON_PAGES
PagesToCheck(pages) == IF pages = Undefined THEN COMMON_PAGES ELSE pages.value

\* a followRedirectChain call starts
ChainStart ==
  /\ chPc' = "loop" /\ chUrl' = 0 /\ chCurrent' = 0 /\ chHops' = <<>>
  /\ chSeen' = {} /\ chI' = 0 /\ chRequests' = <<>> /\ chLast' = None
  /\ chResult' = NoResult

\* no followRedirectChain call is running
ChainRest ==
  /\ chPc' = "idle" /\ chUrl' = 0 /\ chCurrent' = 0 /\ chHops' = <<>>
  /\ chSeen' = {} /\ chI' = 0 /\ chRequests' = <<>> /\ chLast' = None
  /\ chResult' = NoResult

RedirectsIdle ==
  /\ rdPc = "idle" /\ rdUrl = NormalizedUrl /\ rdPages = Undefined
  /\ rdIdx = 0 /\ rdChain = NoResult /\ rdHttpSeen = None /\ rdFindings = <<>>

\* the calls that are run: on the root URL with the default page list, on
\* the other URLs with a page list of the caller
AuditedCalls ==
  { [url |-> "https://example.com/", pages |-> Undefined],
    [url |-> "https://example.com/blog", pages |-> Some(<<"/docs">>)],
    [url |-> "https://example.com/blog/", pages |-> Some(<<>>)],
    [url |-> "http://example.com/blog", pages |-> Some(<<"/docs">>)] }

RedirectsInit ==
  /\ rdPc = "home"
  /\ \E call \in AuditedCalls : rdUrl = call.url /\ rdPages = call.pages
  /\ rdIdx = 0 /\ rdChain = NoResult /\ rdHttpSeen = None /\ rdFindings = <<>>

\* 1. the homepage chain returned; 2. start the chain of the HTTP variant
\* when the audited URL is https
RedirHomeChain ==
  /\ rdPc = "home" /\ chPc = "done"
  /\ rdChain' = ChainSummary(chResult)
  /\ rdFindings' = HomeChainFindings(chResult, rdUrl)
  /\ IF isHttps(rdUrl)
       THEN rdPc' = "http" /\ ChainStart
       ELSE rdPc' = "slash" /\ ChainRest
  /\ UNCHANGED <<rdUrl, rdPages, rdIdx, rdHttpSeen>>
  /\ UNCHANGED redirectsFrame

\* 1. the homepage chain threw: the await stands outside any try, the
\* promise of auditRedirects rejects
RedirHomeThrew ==
  /\ rdPc = "home" /\ chPc = "rejected"
  /\ rdPc' = "rejected"
  /\ ChainRest
  /\ UNCHANGED <<rdUrl, rdPages, rdIdx, rdChain, rdHttpSeen, rdFindings>>
  /\ UNCHANGED redirectsFrame

\* 2. the chain of the HTTP variant threw: the catch block leaves the
\* findings alone; 3. send the trailing slash probe
RedirHttpThrew ==
  /\ rdPc = "http" /\ chPc = "rejected"
  /\ rdHttpSeen' = "answered"
  /\ rdPc' = "slash"
  /\ ChainRest
  /\ UNCHANGED <<rdUrl, rdPages, rdIdx, rdChain, rdFindings>>
  /\ UNCHANGED redirectsFrame

\* 2. the chain of the HTTP variant returned; 3. send the trailing slash probe
RedirHttpChain ==
  /\ rdPc = "http" /\ chPc = "done"
  /\ rdHttpSeen' = IF chLast = "error" /\ Len(chRequests) = 1
                     THEN "unreachable" ELSE "answered"
  /\ \E finalIsHttps \in FinalIsHttpsChoices(chResult) :
       rdFindings' = rdFindings \o HttpChainFindings(finalIsHttps, toHttpUrl(rdUrl))
  /\ rdPc' = "slash"
  /\ ChainRest
  /\ UNCHANGED <<rdUrl, rdPages, rdIdx, rdChain>>
  /\ UNCHANGED redirectsFrame

\* 3. fetchWithoutRedirect(testUrl) returned; 4. fetch the homepage
RedirSlashAnswered ==
  /\ rdPc = "slash"
  /\ \E status \in Statuses :
       rdFindings' =
         rdFindings \o
           (IF status >= 300 /\ status < 400
              THEN <<RedirectFinding("TRAILING_SLASH_REDIRECT", "info",
                                     SlashTestUrl(rdUrl))>>
              ELSE <<>>)
  /\ rdPc' = "meta"
  /\ UNCHANGED <<rdUrl, rdPages, rdIdx, rdChain, rdHttpSeen>>
  /\ UNCHANGED chainVars
  /\ UNCHANGED redirectsFrame

\* 3. fetchWithoutRedirect(testUrl) threw
RedirSlashFailed ==
  /\ rdPc = "slash"
  /\ rdPc' = "meta"
  /\ UNCHANGED <<rdUrl, rdPages, rdIdx, rdChain, rdHttpSeen, rdFindings>>
  /\ UNCHANGED chainVars
  /\ UNCHANGED redirectsFrame

\* 5. enter the common-page loop at position idx, or return
PagesLoop(idx) ==
  /\ rdIdx' = idx
  /\ IF idx <= Len(PagesToCheck(rdPages))
       THEN rdPc' = "pages" /\ ChainStart
       ELSE rdPc' = "done" /\ ChainRest

\* 4. fetchPage(normalizedUrl) returned, getMetaRefresh looked at the body
RedirMetaFetched ==
  /\ rdPc = "meta"
  /\ \E metaRefresh \in BOOLEAN :
       rdFindings' =
         rdFindings \o
           (IF metaRefresh
              THEN <<RedirectFinding("META_REFRESH_REDIRECT", "warning", rdUrl)>>
              ELSE <<>>)
  /\ PagesLoop(1)
  /\ UNCHANGED <<rdUrl, rdPages, rdChain, rdHttpSeen>>
  /\ UNCHANGED redirectsFrame

\* 4. fetchPage(normalizedUrl) threw
RedirMetaFailed ==
  /\ rdPc = "meta"
  /\ PagesLoop(1)
  /\ UNCHANGED <<rdUrl, rdPages, rdChain, rdHttpSeen, rdFindings>>
  /\ UNCHANGED redirectsFrame

\* 5. the chain of one common page returned
RedirPageChain ==
  /\ rdPc = "pages" /\ chPc = "done"
  /\ rdFindings' =
       rdFindings \o
         (IF Len(chResult.hops) > 1
            THEN <<RedirectFinding("COMMON_PAGE_REDIRECT", "info",
                     getOrigin(rdUrl) \o PagesToCheck(rdPages)[rdIdx])>>
            ELSE <<>>)
  /\ PagesLoop(rdIdx + 1)
  /\ UNCHANGED <<rdUrl, rdPages, rdChain, rdHttpSeen>>
  /\ UNCHANGED redirectsFrame

\* 5. the chain of one common page threw: the catch block goes on to the
\* next page
RedirPageThrew ==
  /\ rdPc = "pages" /\ chPc = "rejected"
  /\ PagesLoop(rdIdx + 1)
  /\ UNCHANGED <<rdUrl, rdPages, rdChain, rdHttpSeen, rdFindings>>
  /\ UNCHANGED redirectsFrame

RedirectsNext ==
  \/ ChainCircular
  \/ ChainFetchError
  \/ ChainRedirect
  \/ ChainThrew
  \/ ChainFinal
  \/ ChainExhausted
  \/ RedirHomeChain
  \/ RedirHomeThrew
  \/ RedirHttpChain
  \/ RedirHttpThrew
  \/ RedirSlashAnswered
  \/ RedirSlashFailed
  \/ RedirMetaFetched
  \/ RedirMetaFailed
  \/ RedirPageChain
  \/ RedirPageThrew

(***************************************************************************)
(* auditCrawl and auditPage                                                *)
(*                                                                         *)
(* A page URL is given by its page number and by whether it is written     *)
(* with a trailing slash.  A site fixes what each page answers, so that a  *)
(* page audited twice would answer alike.                                  *)
(***************************************************************************)
DEFAULT_CRAWL_LIMIT == 50

CRAWL_CONCURRENCY == 5

MaxSitemapUrls == 52

Url(page, slash) == [kind |-> "url", page |-> page, slash |-> slash]

\* no <link rel="canonical"> in the body
NoCanonical == [kind |-> "none", page |-> 0, slash |-> FALSE]

\* a canonical href that new URL() rejects
InvalidCanonical == [kind |-> "invalid", page |-> 0, slash |-> FALSE]

\* the URL of page k as a sitemap lists it
SitemapEntry(k) == Url(k, k % 4 = 2)

\* a sitemap may list a URL more than once: with period p the list starts
\* again at page 1 after every p entries; lists of period MaxSitemapUrls
\* hold different URLs only
SitemapPeriods == {3, 7, MaxSitemapUrls}

\* the sitemap of n entries and period p
SitemapList(n, p) == [k \in 1..n |-> SitemapEntry(((k - 1) % p) + 1)]

\* what ctx.sitemapUrls may hold when auditCrawl is called: any string[]
SitemapUrlLists ==
  {Undefined}
    \cup {Some(SitemapList(n, p)) : n \in 0..MaxSitemapUrls, p \in SitemapPeriods}

\* what ctx.crawlLimit may hold: unset, or the positive number of --crawl
CrawlLimits == {Undefined, Some(1), Some(3), Some(5), Some(7), Some(60)}

Sites == {"healthy", "mixed", "down"}

FetchThrew ==
  [fetch |-> "threw", status |-> 0, noindex |-> FALSE, xRobotsTag |-> "",
   title |-> "", description |-> "", canonical |-> NoCanonical, jsonld |-> FALSE]

GoodPage(url) ==
  [fetch |-> "ok", status |-> 200, noindex |-> FALSE, xRobotsTag |-> "",
   title |-> "Page", description |-> "A page", canonical |-> url, jsonld |-> TRUE]

\* what the site answers to fetchPage(url)
PageOf(site, url) ==
  IF site = "down" THEN FetchThrew
  ELSE IF site = "healthy" THEN GoodPage(url)
  ELSE
    CASE url.page % 6 = 1 -> FetchThrew
      [] url.page % 6 = 2 -> [GoodPage(url) EXCEPT
                                !.status = IF url.page % 12 = 2 THEN 404 ELSE 301,
                                !.title = "", !.canonical = NoCanonical]
      [] url.page % 6 = 3 -> [GoodPage(url) EXCEPT !.noindex = TRUE,
                                !.xRobotsTag = "noindex", !.title = "",
                                !.description = "", !.canonical = NoCanonical,
                                !.jsonld = FALSE]
      [] url.page % 6 = 4 -> [GoodPage(url) EXCEPT !.canonical = InvalidCanonical,
                                                   !.title = ""]
      [] url.page % 6 = 5 -> [GoodPage(url) EXCEPT
                                !.canonical = Url(url.page, ~url.slash),
                                !.jsonld = FALSE]
      [] OTHER -> [GoodPage(url) EXCEPT !.canonical = Url(url.page + 1, url.slash)]

CrawlFinding(code, severity, url) ==
  [code |-> code, severity |-> severity, url |-> url]

\* url.replace(/\/$/, '')
StripTrailingSlash(url) == [url EXCEPT !.slash = FALSE]

\* a page audit that goes on to the checks after a non-2xx answer
ShortCircuitsOnThrowOnly(page) == page.fetch = "threw"

\* the catch branch, and if (status < 200 || status >= 300)
ShortCircuits(page) == page.fetch = "threw" \/ IsNot2xx(page.status)

\* new URL(canonical, pageUrl) throws: auditPage rejects
AuditPageThrows(page) ==
  ~ShortCircuits(page) /\ page.canonical = InvalidCanonical

\* the checks auditPage runs on a fetched page
PageChecks(page, url) ==
  (IF page.noindex
     THEN <<CrawlFinding("CRAWL_PAGE_NOINDEX", "warning", url)>> ELSE <<>>)
  \o (IF HeaderHasNoindex(page.xRobotsTag)
        THEN <<CrawlFinding("CRAWL_PAGE_NOINDEX", "warning", url)>> ELSE <<>>)
  \o (IF page.title = ""
        THEN <<CrawlFinding("CRAWL_PAGE_TITLE_MISSING", "warning", url)>> ELSE <<>>)
  \o (IF page.description = ""
        THEN <<CrawlFinding("CRAWL_PAGE_DESCRIPTION_MISSING", "info", url)>>
        ELSE <<>>)
  \o (IF page.canonical = NoCanonical
        THEN <<CrawlFinding("CRAWL_PAGE_CANONICAL_MISSING", "warning", url)>>
        ELSE IF StripTrailingSlash(page.canonical) # StripTrailingSlash(url)
          THEN <<CrawlFinding("CRAWL_PAGE_CANONICAL_MISMATCH", "warning", url)>>
          ELSE <<>>)
  \o (IF ~page.jsonld
        THEN <<CrawlFinding("CRAWL_PAGE_JSONLD_MISSING", "info", url)>> ELSE <<>>)

\* the findings auditPage fulfils with
AuditPageFindings(page, url) ==
  IF ShortCircuits(page)
    THEN <<CrawlFinding("CRAWL_PAGE_ERROR", "error", url)>>
    ELSE PageChecks(page, url)

Pending == [status |-> "pending", value |-> <<>>]

\* how the promise of auditPage(url) settles
AuditPageResult(page, url) ==
  IF AuditPageThrows(page) THEN [status |-> "rejected", value |-> <<>>]
  ELSE [status |-> "fulfilled", value |-> AuditPageFindings(page, url)]

\* ctx.crawlLimit ?? DEFAULT_CRAWL_LIMIT
CrawlLimit(limit) == IF limit = Undefined THEN DEFAULT_CRAWL_LIMIT ELSE limit.value

\* a slice that keeps one URL more than the limit
SliceInclusive(urls, limit) == SubSeq(urls, 1, Min(Len(urls), limit + 1))

\* ctx.sitemapUrls.slice(0, limit)
Slice(urls, limit) == SubSeq(urls, 1, Min(Len(urls), limit))

\* urls.slice(i, i + CRAWL_CONCURRENCY), as positions in urls
BatchPositions(urls, i) == (i + 1)..Min(i + CRAWL_CONCURRENCY, Len(urls))

\* a loop that takes the findings of a batch up to its first rejected page
RECURSIVE BatchFindingsUntilRejected(_, _, _)
BatchFindingsUntilRejected(results, from, to) ==
  IF from > to \/ results[from].status # "fulfilled" THEN <<>>
  ELSE results[from].value \o BatchFindingsUntilRejected(results, from + 1, to)

\* for (const result of results) if fulfilled findings.push(...result.value)
RECURSIVE BatchFindings(_, _, _)
BatchFindings(results, from, to) ==
  IF from > to THEN <<>>
  ELSE (IF results[from].status = "fulfilled" THEN results[from].value ELSE <<>>)
         \o BatchFindings(results, from + 1, to)

\* a wait that ends as soon as at most one page is pending
BatchAwaitedButOne(inFlight) == Cardinality(inFlight) <= 1

\* await Promise.allSettled(...): every page of the batch has settled
BatchAwaited(inFlight) == inFlight = {}

CrawlIdle ==
  /\ crPc = "idle" /\ crSite = "healthy" /\ crLimit = Undefined /\ crUrls = <<>>
  /\ crI = 0 /\ crInFlight = {} /\ crResults = <<>> /\ crStarted = <<>>
  /\ crFindings = <<>>

CrawlInit ==
  /\ crPc = "start" /\ crSite \in Sites /\ crLimit \in CrawlLimits
  /\ crUrls = <<>> /\ crI = 0 /\ crInFlight = {} /\ crResults = <<>>
  /\ crStarted = <<>> /\ crFindings = <<>>

\* batch.map(async ...) calls auditPage for every URL of the batch, in order
LaunchBatch(urls, i) ==
  /\ crI' = i
  /\ crInFlight' = crInFlight \cup BatchPositions(urls, i)
  /\ crStarted' = crStarted \o SubSeq(urls, i + 1, Min(i + CRAWL_CONCURRENCY, Len(urls)))
  /\ crPc' = "batch"

\* auditCrawl is called: return at once without URLs, else start batch one
CrawlStart ==
  /\ crPc = "start"
  /\ IF ctxSitemapUrls = Undefined \/ Len(ctxSitemapUrls.value) = 0
       THEN /\ crPc' = "done"
            /\ UNCHANGED <<crUrls, crI, crInFlight, crResults, crStarted>>
       ELSE LET urls == Slice(ctxSitemapUrls.value, CrawlLimit(crLimit)) IN
              /\ crUrls' = urls
              /\ crResults' = [k \in 1..Len(urls) |-> Pending]
              /\ LaunchBatch(urls, 0)
  /\ UNCHANGED <<crSite, crLimit, crFindings>>
  /\ UNCHANGED crawlFrame

\* fetchPage(pageUrl) threw: auditPage fulfils with the error finding
PageFetchFailed(k) ==
  /\ crPc = "batch" /\ k \in crInFlight
  /\ PageOf(crSite, crUrls[k]).fetch = "threw"
  /\ crResults' = [crResults EXCEPT
                     ![k] = AuditPageResult(PageOf(crSite, crUrls[k]), crUrls[k])]
  /\ crInFlight' = crInFlight \ {k}
  /\ UNCHANGED <<crPc, crSite, crLimit, crUrls, crI, crStarted, crFindings>>
  /\ UNCHANGED crawlFrame

\* fetchPage(pageUrl) returned: auditPage runs to its end
PageFetched(k) ==
  /\ crPc = "batch" /\ k \in crInFlight
  /\ PageOf(crSite, crUrls[k]).fetch = "ok"
  /\ crResults' = [crResults EXCEPT
                     ![k] = AuditPageResult(PageOf(crSite, crUrls[k]), crUrls[k])]
  /\ crInFlight' = crInFlight \ {k}
  /\ UNCHANGED <<crPc, crSite, crLimit, crUrls, crI, crStarted, crFindings>>
  /\ UNCHANGED crawlFrame

\* Promise.allSettled resolved: push the fulfilled values, then start the
\* next batch or return
BatchSettled ==
  /\ crPc = "batch" /\ BatchAwaited(crInFlight)
  /\ crFindings' = crFindings \o
       BatchFindings(crResults, crI + 1, Min(crI + CRAWL_CONCURRENCY, Len(crUrls)))
  /\ IF crI + CRAWL_CONCURRENCY < Len(crUrls)
       THEN LaunchBatch(crUrls, crI + CRAWL_CONCURRENCY)
       ELSE crPc' = "done" /\ UNCHANGED <<crI, crInFlight, crStarted>>
  /\ UNCHANGED <<crSite, crLimit, crUrls, crResults>>
  /\ UNCHANGED crawlFrame

CrawlNext ==
  \/ CrawlStart
  \/ \E k \in 1..MaxSitemapUrls : PageFetchFailed(k)
  \/ \E k \in 1..MaxSitemapUrls : PageFetched(k)
  \/ BatchSettled

(***************************************************************************)
(* The requests an analyzer issues, and what a network failure of each     *)
(* does to the analyzer's promise                                          *)
(*                                                                         *)
(* Every await of a fetch helper in an analyzer is a request site: the     *)
(* helper called, whether the await stands in a try block, and what the    *)
(* catch block does.  A loop over requests is written out twice.           *)
(***************************************************************************)
Analyzers ==
  {"robots", "redirects", "sitemap", "metadata", "favicon", "nextjs",
   "structuredData", "i18n", "images", "security", "performance", "crawl"}

RequestSite(call, guard, onFail) ==
  [call |-> call, guard |-> guard, onFail |-> onFail]

\* the request sites of each analyzer, in program order
RequestSites(a) ==
  CASE a = "robots" -> <<RequestSite("fetchPage", "try", "return")>>
    [] a = "redirects" ->
         <<RequestSite("followRedirectChain", "none", "continue"),
           RequestSite("followRedirectChain", "try", "continue"),
           RequestSite("fetchWithoutRedirect", "try", "continue"),
           RequestSite("fetchPage", "try", "continue"),
           RequestSite("followRedirectChain", "try", "continue"),
           RequestSite("followRedirectChain", "try", "continue")>>
    [] a = "sitemap" ->
         <<RequestSite("followRedirectChain", "none", "continue"),
           RequestSite("fetchPage", "try", "return"),
           RequestSite("fetchHead", "try", "continue"),
           RequestSite("fetchHead", "try", "continue")>>
    [] a = "metadata" ->
         <<RequestSite("fetchPage", "try", "return"),
           RequestSite("fetchHead", "try", "continue"),
           RequestSite("fetchHead", "try", "continue")>>
    [] a = "favicon" ->
         <<RequestSite("fetchHead", "try", "continue"),
           RequestSite("fetchPage", "try", "return")>>
    [] a = "nextjs" ->
         <<RequestSite("fetchPage", "try", "return"),
           RequestSite("fetchWithoutRedirect", "try", "continue")>>
    [] a = "i18n" ->
         <<RequestSite("fetchPage", "try", "return"),
           RequestSite("fetchPage", "try", "continue"),
           RequestSite("fetchPage", "try", "continue")>>
    [] a = "images" ->
         <<RequestSite("fetchPage", "try", "return"),
           RequestSite("fetchHead", "try", "continue"),
           RequestSite("fetchHead", "try", "continue")>>
    [] a = "security" -> <<RequestSite("fetchHead", "try", "return")>>
    [] a = "crawl" ->
         <<RequestSite("fetchPage", "try", "continue"),
           RequestSite("fetchPage", "try", "continue")>>
    [] OTHER -> <<RequestSite("fetchPage", "try", "return")>>

\* a followRedirectChain that lets the failure of its request through
CalleeCatchesNothing(call) == FALSE

\* followRedirectChain catches the failure of fetchWithoutRedirect and
\* returns the chain so far; the other helpers let it through
CalleeCatches(call) == call = "followRedirectChain"

\* what a failed request at a site does to the analyzer: "continue",
\* "return" (the analyzer fulfils at once) or "reject"
OnRequestFailure(site) ==
  IF CalleeCatches(site.call) THEN "continue"
  ELSE IF site.guard = "try" THEN site.onFail
  ELSE "reject"

\* the helpers that throw when a redirect answer carries a Location header
\* that is no URL: followRedirectChain, and fetchPage, which awaits it first
HelperThrows(call) == call \in {"followRedirectChain", "fetchPage"}

\* what an exception thrown by the helper at a site does to the analyzer
OnHelperThrow(site) == IF site.guard = "try" THEN site.onFail ELSE "reject"

RequestsIdle ==
  rqAnalyzer = None /\ rqSite = 0 /\ rqState = "idle" /\ rqFailed = {}

RequestsInit ==
  rqAnalyzer \in Analyzers /\ rqSite = 1 /\ rqState = "running" /\ rqFailed = {}

\* go on to the next request site; after the last one the analyzer returns
\* its findings
NextSite ==
  /\ rqSite' = rqSite + 1
  /\ rqState' = IF rqSite = Len(RequestSites(rqAnalyzer))
                  THEN "fulfilled" ELSE "running"

\* the request at the current site got an answer; the analyzer goes on, or
\* returns early on what it found
RequestAnswered ==
  /\ rqState = "running"
  /\ \/ NextSite
     \/ rqState' = "fulfilled" /\ UNCHANGED rqSite
  /\ UNCHANGED <<rqAnalyzer, rqFailed>>
  /\ UNCHANGED requestFrame

\* the request at the current site was answered by a redirect whose Location
\* header is no URL: new URL() throws inside the helper
RequestAnsweredUnparsable ==
  /\ rqState = "running"
  /\ HelperThrows(RequestSites(rqAnalyzer)[rqSite].call)
  /\ LET effect == OnHelperThrow(RequestSites(rqAnalyzer)[rqSite]) IN
       IF effect = "continue" THEN NextSite
       ELSE /\ rqState' = IF effect = "return" THEN "fulfilled" ELSE "rejected"
            /\ UNCHANGED rqSite
  /\ UNCHANGED <<rqAnalyzer, rqFailed>>
  /\ UNCHANGED requestFrame

\* the current site is not executed (its condition is false, the page is
\* cached, the loop has fewer entries)
RequestSkipped ==
  /\ rqState = "running"
  /\ NextSite
  /\ UNCHANGED <<rqAnalyzer, rqFailed>>
  /\ UNCHANGED requestFrame

\* the request at the current site failed at the network level
RequestFailed ==
  /\ rqState = "running"
  /\ rqFailed' = rqFailed \cup {rqSite}
  /\ LET effect == OnRequestFailure(RequestSites(rqAnalyzer)[rqSite]) IN
       IF effect = "continue" THEN NextSite
       ELSE /\ rqState' = IF effect = "return" THEN "fulfilled" ELSE "rejected"
            /\ UNCHANGED rqSite
  /\ UNCHANGED rqAnalyzer
  /\ UNCHANGED requestFrame

RequestsNext ==
  \/ RequestAnswered
  \/ RequestAnsweredUnparsable
  \/ RequestSkipped
  \/ RequestFailed

(***************************************************************************)
(* The --diff step of the CLI                                              *)
(*                                                                         *)
(* A report is its modules array; a finding is carried by its code, its    *)
(* severity and its optional url.                                          *)
(***************************************************************************)
DiffFinding(code, severity, url) ==
  [code |-> code, severity |-> severity, url |-> url]

\* findings two runs may hold: on different pages, without url, and twice
\* for one code and url with another severity
DiffFindings ==
  { DiffFinding("TITLE_MISSING", "warning", Some("https://example.com/")),
    DiffFinding("SITEMAP_MISSING", "warning", Some("https://example.com/sitemap.xml")),
    DiffFinding("SITEMAP_MISSING", "error", Some("https://example.com/sitemap.xml")),
    DiffFinding("CRAWL_PAGE_ERROR", "error", Some("https://example.com/a")),
    DiffFinding("CRAWL_PAGE_ERROR", "error", Some("https://example.com/b")),
    DiffFinding("CRAWL_PAGE_ERROR", "error", Undefined) }

ModuleResult(name, findings) == [module |-> name, findings |-> findings]

\* the reports of a run: two modules, with up to one and up to two findings
DiffReports ==
  { <<ModuleResult("sitemap", a), ModuleResult("crawl", b)>> :
      a \in SeqsUpTo(DiffFindings, 1), b \in SeqsUpTo(DiffFindings, 2) }

\* a previous report file without a modules array
InvalidReport == <<ModuleResult("invalid", <<>>)>>

\* a key made of the code alone
toKeyCodeOnly(f) == f.code

\* `${f.code}::${f.url ?? ''}`
toKey(f) == f.code \o "::" \o (IF f.url = Undefined THEN "" ELSE f.url.value)

\* new Set(findings.map(toKey))
KeySet(findings) == {toKey(findings[i]) : i \in 1..Len(findings)}

\* const diff: DiffResult = { newIssues, resolvedIssues, unchanged }
MakeDiff(currentFindings, previousFindings) ==
  LET previousKeys == KeySet(previousFindings)
      currentKeys == KeySet(currentFindings)
  IN [newIssues |->
        SelectSeq(currentFindings, LAMBDA f : toKey(f) \notin previousKeys),
      resolvedIssues |->
        SelectSeq(previousFindings, LAMBDA f : toKey(f) \notin currentKeys),
      unchanged |->
        SelectSeq(currentFindings, LAMBDA f : toKey(f) \in previousKeys)]

NoDiff == [newIssues |-> <<>>, resolvedIssues |-> <<>>, unchanged |-> <<>>]

DiffIdle ==
  /\ dfPc = "idle" /\ dfCurrent = <<>> /\ dfPrevious = <<>> /\ dfDiff = NoDiff

DiffInit ==
  /\ dfPc = "start" /\ dfCurrent \in DiffReports
  /\ dfPrevious \in DiffReports \cup {InvalidReport}
  /\ dfDiff = NoDiff

\* the previous report has no modules array: process.exit(2)
DiffReadFailed ==
  /\ dfPc = "start" /\ dfPrevious = InvalidReport
  /\ dfPc' = "exit"
  /\ UNCHANGED <<dfCurrent, dfPrevious, dfDiff>>
  /\ UNCHANGED diffFrame

\* the previous report was read: flatten both reports and compute the diff
DiffComputed ==
  /\ dfPc = "start" /\ dfPrevious # InvalidReport
  /\ dfDiff' = MakeDiff(FlatFindings(dfCurrent), FlatFindings(dfPrevious))
  /\ dfPc' = "done"
  /\ UNCHANGED <<dfCurrent, dfPrevious>>
  /\ UNCHANGED diffFrame

DiffNext ==
  \/ DiffReadFailed
  \/ DiffComputed

(***************************************************************************)
(* auditMetadata, auditNextjs and auditImages on one context               *)
(*                                                                         *)
(* The three analyzers of phase 2 that write ctx.html and ctx.headers or   *)
(* read them after an await.  Two runs of runAudit against the same server *)
(* are followed side by side, each on its own context; the server answers  *)
(* every request for a URL the same way.  A body is given by what          *)
(* getImages and the Next.js marker test find in it.                       *)
(***************************************************************************)
Runs == {1, 2}

RaceAnalyzers == {"metadata", "structuredData", "i18n", "nextjs", "images"}

Page(text, images, markers) ==
  [text |-> text, images |-> images, hasNextMetadata |-> markers]

Img(isNextImage) == [isNextImage |-> isNextImage]

RaceBodies ==
  { Page("<html>plain</html>", <<Img(FALSE)>>, FALSE),
    Page("<html>next</html>", <<Img(TRUE), Img(FALSE)>>, TRUE),
    Page("<html>text</html>", <<>>, FALSE) }

RaceServers ==
  [body : RaceBodies,
   headers : [server : {"Vercel", "nginx"}, xPoweredBy : {"Next.js", ""}],
   slashStatus : {200, 308}]

\* ctx.headers?.['x-powered-by']?.includes('Next.js') ?? false
ImagesIsNextjs(headers) ==
  headers # Undefined /\ headers.value.xPoweredBy = "Next.js"

\* the checks of auditImages that read ctx.headers (check 3); the other
\* checks depend on the body alone
ImagesFindings(html, headers) ==
  IF Len(html.images) = 0 THEN <<>>
  ELSE IF /\ ImagesIsNextjs(headers)
          /\ \E i \in 1..Len(html.images) : ~html.images[i].isNextImage
    THEN <<"IMG_NO_NEXT_IMAGE">>
    ELSE <<>>

\* 2. Vercel detection
VercelFindings(headers) ==
  IF headers.server = "Vercel" THEN <<"VERCEL_DETECTED">> ELSE <<>>

\* 5. App Router metadata check, on const html = ctx.html
AppRouterFindings(html, headers) ==
  IF html # Undefined /\ headers.xPoweredBy = "Next.js"
       /\ ~html.value.hasNextMetadata
    THEN <<"APP_ROUTER_METADATA">>
    ELSE <<>>

RaceIdle ==
  /\ rcServer = None
  /\ rcPc = [r \in Runs |-> [a \in RaceAnalyzers |-> "idle"]]
  /\ rcHtml = [r \in Runs |-> Undefined]
  /\ rcHeaders = [r \in Runs |-> Undefined]
  /\ rcLocal = [r \in Runs |-> Undefined]
  /\ rcFindings = [r \in Runs |-> [a \in RaceAnalyzers |-> <<>>]]

RaceInit ==
  /\ rcServer \in RaceServers
  /\ rcPc = [r \in Runs |-> [a \in RaceAnalyzers |-> "idle"]]
  /\ rcHtml = [r \in Runs |-> Undefined]
  /\ rcHeaders = [r \in Runs |-> Undefined]
  /\ rcLocal = [r \in Runs |-> Undefined]
  /\ rcFindings = [r \in Runs |-> [a \in RaceAnalyzers |-> <<>>]]

\* runModules(phase2Modules): modules.map calls the analyzers one after the
\* other, each running to its first await.  ctx.html and ctx.headers are
\* unset, so each of them calls fetchPage(normalizedUrl).  The findings kept
\* are those that depend on what the context held when it was read.
RaceLaunch(r) ==
  /\ \A a \in RaceAnalyzers : rcPc[r][a] = "idle"
  /\ rcHtml[r] = Undefined /\ rcHeaders[r] = Undefined
  /\ rcPc' = [rcPc EXCEPT ![r] = [a \in RaceAnalyzers |-> "fetch"]]
  /\ UNCHANGED <<rcServer, rcHtml, rcHeaders, rcLocal, rcFindings>>
  /\ UNCHANGED raceFrame

\* auditMetadata: fetchPage resolved; ctx.html and ctx.headers are written
RaceMetadataFetched(r) ==
  /\ rcPc[r]["metadata"] = "fetch"
  /\ rcHtml' = [rcHtml EXCEPT ![r] = Some(rcServer.body)]
  /\ rcHeaders' = [rcHeaders EXCEPT ![r] = Some(rcServer.headers)]
  /\ rcPc' = [rcPc EXCEPT ![r]["metadata"] = "done"]
  /\ UNCHANGED <<rcServer, rcLocal, rcFindings>>
  /\ UNCHANGED raceFrame

\* auditStructuredData: fetchPage resolved; ctx.html is written
RaceStructuredDataFetched(r) ==
  /\ rcPc[r]["structuredData"] = "fetch"
  /\ rcHtml' = [rcHtml EXCEPT ![r] = Some(rcServer.body)]
  /\ rcPc' = [rcPc EXCEPT ![r]["structuredData"] = "done"]
  /\ UNCHANGED <<rcServer, rcHeaders, rcLocal, rcFindings>>
  /\ UNCHANGED raceFrame

\* auditI18n: fetchPage resolved; ctx.html and ctx.headers are written
RaceI18nFetched(r) ==
  /\ rcPc[r]["i18n"] = "fetch"
  /\ rcHtml' = [rcHtml EXCEPT ![r] = Some(rcServer.body)]
  /\ rcHeaders' = [rcHeaders EXCEPT ![r] = Some(rcServer.headers)]
  /\ rcPc' = [rcPc EXCEPT ![r]["i18n"] = "done"]
  /\ UNCHANGED <<rcServer, rcLocal, rcFindings>>
  /\ UNCHANGED raceFrame

\* auditImages: fetchPage resolved; ctx.html is written, then ctx.headers is
\* read for isNextjs
RaceImagesFetched(r) ==
  /\ rcPc[r]["images"] = "fetch"
  /\ rcHtml' = [rcHtml EXCEPT ![r] = Some(rcServer.body)]
  /\ rcFindings' = [rcFindings EXCEPT ![r]["images"] =
                      ImagesFindings(rcServer.body, rcHeaders[r])]
  /\ rcPc' = [rcPc EXCEPT ![r]["images"] = "done"]
  /\ UNCHANGED <<rcServer, rcHeaders, rcLocal>>
  /\ UNCHANGED raceFrame

\* auditNextjs: fetchPage resolved; the headers are kept in a local
\* variable, Vercel is detected, and the trailing-slash request is sent
RaceNextjsFetched(r) ==
  /\ rcPc[r]["nextjs"] = "fetch"
  /\ rcLocal' = [rcLocal EXCEPT ![r] = Some(rcServer.headers)]
  /\ rcFindings' = [rcFindings EXCEPT ![r]["nextjs"] =
                      VercelFindings(rcServer.headers)]
  /\ rcPc' = [rcPc EXCEPT ![r]["nextjs"] = "probe"]
  /\ UNCHANGED <<rcServer, rcHtml, rcHeaders>>
  /\ UNCHANGED raceFrame

\* auditNextjs: fetchWithoutRedirect(testUrl) resolved; then ctx.html is read
\* for the App Router check
RaceNextjsProbed(r) ==
  /\ rcPc[r]["nextjs"] = "probe"
  /\ rcFindings' = [rcFindings EXCEPT ![r]["nextjs"] =
                      @ \o (IF rcServer.slashStatus = 308
                              THEN <<"NEXTJS_TRAILING_SLASH_308">> ELSE <<>>)
                        \o AppRouterFindings(rcHtml[r], rcLocal[r].value)]
  /\ rcPc' = [rcPc EXCEPT ![r]["nextjs"] = "done"]
  /\ UNCHANGED <<rcServer, rcHtml, rcHeaders, rcLocal>>
  /\ UNCHANGED raceFrame

RaceNext ==
  \/ \E r \in Runs : RaceLaunch(r)
  \/ \E r \in Runs : RaceMetadataFetched(r)
  \/ \E r \in Runs : RaceStructuredDataFetched(r)
  \/ \E r \in Runs : RaceI18nFetched(r)
  \/ \E r \in Runs : RaceImagesFetched(r)
  \/ \E r \in Runs : RaceNextjsFetched(r)
  \/ \E r \in Runs : RaceNextjsProbed(r)

(***************************************************************************)
(* Specifications                                                          *)
(***************************************************************************)
\* the analyzers added to the components above are not running
ExtraIdle == DiffIdle /\ RaceIdle

MoreIdle ==
  MetadataIdle /\ RedirectsIdle /\ CrawlIdle /\ RequestsIdle /\ ExtraIdle

\* followRedirectChain called on its own
InitChain ==
  /\ ChainInit /\ RunnerIdle /\ CtxEmpty /\ RobotsIdle /\ SitemapIdle /\ CacheIdle
  /\ MoreIdle

SpecChain == InitChain /\ [][ChainNext]_vars

\* runAudit with the analyzers as opaque promises
InitRunner ==
  /\ RunnerInit /\ ChainIdle /\ CtxEmpty /\ RobotsIdle /\ SitemapIdle /\ CacheIdle
  /\ MoreIdle

SpecRunner == InitRunner /\ [][RunnerNext]_vars

\* auditRobots called on a fresh context
InitRobots ==
  /\ RobotsInit /\ CtxEmpty /\ ChainIdle /\ RunnerIdle /\ SitemapIdle /\ CacheIdle
  /\ MoreIdle

SpecRobots == InitRobots /\ [][RobotsNext]_vars

\* auditSitemap called in phase 2: ctx.robotsTxt is what phase 1 left
InitSitemap ==
  /\ SitemapInit
  /\ ctxRobotsTxt \in CachedRobotsChoices
  /\ ctxHtml = Undefined /\ ctxHeaders = Undefined /\ ctxSitemapUrls = Undefined
  /\ ChainIdle /\ RunnerIdle /\ RobotsIdle /\ CacheIdle /\ MoreIdle

SpecSitemap == InitSitemap /\ [][SitemapNext]_vars

\* the HTML analyzers called on one context, concurrently; ctx.html is
\* unset as in runAudit, or preset by the caller
InitCache ==
  /\ CacheInit
  /\ ctxHtml \in {Undefined, Some("<html>A</html>")}
  /\ ctxHeaders = Undefined /\ ctxRobotsTxt = Undefined
  /\ ctxSitemapUrls = Undefined
  /\ ChainIdle /\ RunnerIdle /\ RobotsIdle /\ SitemapIdle /\ MoreIdle

SpecCache == InitCache /\ [][CacheNext]_vars

\* one of the three analyzers with a primary resource is called: auditRobots
\* on a fresh context, auditSitemap or auditMetadata on the context phase 1
\* left
InitPrimary ==
  /\ ChainIdle /\ RunnerIdle /\ CacheIdle /\ RedirectsIdle /\ CrawlIdle
  /\ RequestsIdle /\ ExtraIdle
  /\ ctxHtml = Undefined /\ ctxHeaders = Undefined /\ ctxSitemapUrls = Undefined
  /\ \/ RobotsInit /\ SitemapIdle /\ MetadataIdle /\ ctxRobotsTxt = Undefined
     \/ /\ SitemapInit /\ RobotsIdle /\ MetadataIdle
        /\ ctxRobotsTxt \in CachedRobotsChoices
     \/ /\ MetadataInit /\ RobotsIdle /\ SitemapIdle
        /\ ctxRobotsTxt \in CachedRobotsChoices

PrimaryNext ==
  \/ RobotsFetchFail
  \/ RobotsFetchNot200
  \/ RobotsFetchOk
  \/ SitemapChain
  \/ SitemapChainThrew
  \/ SitemapFetchFail
  \/ SitemapFetchNot200
  \/ SitemapInvalidXml
  \/ SitemapIndex
  \/ SitemapEmpty
  \/ SitemapUrlset
  \/ SitemapHead
  \/ SitemapHeadFail
  \/ SitemapFinish
  \/ MetaFetchFailed
  \/ MetaFetched
  \/ MetaOgHead
  \/ MetaOgHeadFailed
  \/ MetaTwitterHead
  \/ MetaTwitterHeadFailed

SpecPrimary == InitPrimary /\ [][PrimaryNext]_vars

\* auditRedirects called on a context; the chain of the homepage starts
InitRedirects ==
  /\ RedirectsInit /\ ChainInit /\ CtxEmpty
  /\ RunnerIdle /\ RobotsIdle /\ SitemapIdle /\ CacheIdle
  /\ MetadataIdle /\ CrawlIdle /\ RequestsIdle /\ ExtraIdle

SpecRedirects == InitRedirects /\ [][RedirectsNext]_vars

\* auditCrawl called on a context that holds a list of sitemap URLs, or none
InitCrawl ==
  /\ CrawlInit
  /\ ctxSitemapUrls \in SitemapUrlLists
  /\ ctxHtml = Undefined /\ ctxHeaders = Undefined /\ ctxRobotsTxt = Undefined
  /\ ChainIdle /\ RunnerIdle /\ RobotsIdle /\ SitemapIdle /\ CacheIdle
  /\ MetadataIdle /\ RedirectsIdle /\ RequestsIdle /\ ExtraIdle

SpecCrawl == InitCrawl /\ [][CrawlNext]_vars

\* one analyzer is called and issues its requests
InitRequests ==
  /\ RequestsInit /\ CtxEmpty
  /\ ChainIdle /\ RunnerIdle /\ RobotsIdle /\ SitemapIdle /\ CacheIdle
  /\ MetadataIdle /\ RedirectsIdle /\ CrawlIdle /\ ExtraIdle

SpecRequests == InitRequests /\ [][RequestsNext]_vars

\* the CLI reaches the --diff step with the report of the run
InitDiff ==
  /\ DiffInit /\ CtxEmpty
  /\ ChainIdle /\ RunnerIdle /\ RobotsIdle /\ SitemapIdle /\ CacheIdle
  /\ MetadataIdle /\ RedirectsIdle /\ CrawlIdle /\ RequestsIdle /\ RaceIdle

SpecDiff == InitDiff /\ [][DiffNext]_vars

\* two runs of phase 2 against the same server
InitRace ==
  /\ RaceInit /\ CtxEmpty
  /\ ChainIdle /\ RunnerIdle /\ RobotsIdle /\ SitemapIdle /\ CacheIdle
  /\ MetadataIdle /\ RedirectsIdle /\ CrawlIdle /\ RequestsIdle /\ DiffIdle

SpecRace == InitRace /\ [][RaceNext]_vars

(***************************************************************************)
(* Properties of runAudit                                                  *)
(***************************************************************************)
Started(m) == rnStatus[m] # "idle"

ReportedModules == {rnReport.modules[i].module : i \in 1..Len(rnReport.modules)}

\* C1: no phase-2 analyzer is started before both phase-1 analyzers have
\* settled, and crawl is not started before every phase-2 analyzer has
\* settled.
C1_PhasesSequential ==
  /\ (\E m \in Range(phase2Modules) : Started(m)) =>
        \A p \in Range(phase1Modules) : Settled(p)
  /\ Started("crawl") => \A p \in Range(phase2Modules) : Settled(p)

\* crawl is running after a phase-1 rejection and a full phase 2
C1_Witness ==
  /\ rnStatus["crawl"] = "running"
  /\ rnStatus["redirects"] = "rejected"
  /\ rnStatus["security"] = "fulfilled"

\* C2: when an analyzer rejected, runAudit still returns a report; the
\* report has no entry for a rejected analyzer and an entry for every
\* fulfilled one, and the analyzers of the later phases were still run.
C2_RejectionIsolated ==
  /\ (rnPc = "done" /\ \E m \in Modules : rnStatus[m] = "rejected") =>
        /\ rnReport.kind = "report"
        /\ ReportedModules = {m \in Modules : rnStatus[m] = "fulfilled"}
        /\ \A m \in Range(phase1Modules) \cup Range(phase2Modules) : Settled(m)
        /\ rnCrawl => Settled("crawl")
  /\ (rnPc # "done" /\ \E m \in Modules : rnStatus[m] = "rejected") =>
        ENABLED RunnerNext

\* a report returned after a phase-1 and a phase-2 rejection, crawl included
C2_Witness ==
  /\ rnPc = "done" /\ rnCrawl
  /\ rnStatus["robots"] = "rejected" /\ rnStatus["metadata"] = "rejected"
  /\ rnStatus["crawl"] = "fulfilled" /\ rnStatus["sitemap"] = "fulfilled"

\* findings of one severity, counted module by module
RECURSIVE CountInModules(_, _)
CountInModules(mods, sev) ==
  IF mods = <<>> THEN 0
  ELSE Cardinality({j \in 1..Len(Head(mods).findings) :
                      Head(mods).findings[j].severity = sev})
       + CountInModules(Tail(mods), sev)

RECURSIVE TotalFindings(_)
TotalFindings(mods) ==
  IF mods = <<>> THEN 0 ELSE Len(Head(mods).findings) + TotalFindings(Tail(mods))

\* C3: in every returned report each summary counter equals the number of
\* findings of its severity across report.modules, and the four counters
\* sum to the number of findings in the report.
C3_SummaryCounts ==
  rnPc = "done" =>
    LET r == rnReport IN
      /\ r.summary.errors   = CountInModules(r.modules, "error")
      /\ r.summary.warnings = CountInModules(r.modules, "warning")
      /\ r.summary.info     = CountInModules(r.modules, "info")
      /\ r.summary.passed   = CountInModules(r.modules, "pass")
      /\ r.summary.errors + r.summary.warnings + r.summary.info
           + r.summary.passed = TotalFindings(r.modules)

\* a report with findings of all four severities, in unequal numbers
C3_Witness ==
  /\ rnPc = "done"
  /\ rnReport.summary.errors = 3 /\ rnReport.summary.warnings = 2
  /\ rnReport.summary.info = 1 /\ rnReport.summary.passed = 2
  /\ Len(rnReport.modules) = 5

(***************************************************************************)
(* Properties of followRedirectChain                                       *)
(***************************************************************************)
NoRepeatedRequest ==
  \A i, j \in 1..Len(chRequests) : chRequests[i] = chRequests[j] => i = j

\* C4: whenever a redirect whose resolved target was already visited in the
\* chain is received, the function stops without requesting that URL again
\* and returns isCircular = true, whatever the length of the cycle.
C4_RevisitIsCircular ==
  /\ NoRepeatedRequest
  /\ (chPc = "done" /\ chLast = "redirect" /\ chCurrent \in chSeen) =>
        chResult.isCircular

RECURSIVE GroupAgents(_, _, _, _)
GroupAgents(txt, n, agents, inGroup) ==
  IF n = 0 \/ txt = <<>> THEN agents
  ELSE
    LET line == Head(txt) IN
      IF IsSkippedLine(line) THEN GroupAgents(Tail(txt), n - 1, agents, inGroup)
      ELSE IF ToLowerCase(line.key) = "user-agent" THEN
        GroupAgents(Tail(txt), n - 1,
          IF inGroup THEN agents \cup {ToLowerCase(line.value)}
                     ELSE {ToLowerCase(line.value)}, TRUE)
      ELSE GroupAgents(Tail(txt), n - 1, agents, FALSE)

\* the text has a "Disallow: /" line under "User-agent: *"
DisallowsAllUnderStar(txt) ==
  \E j \in 1..Len(txt) :
    /\ ToLowerCase(txt[j].key) = "disallow" /\ txt[j].value = "/"
    /\ "*" \in GroupAgents(txt, j - 1, {}, FALSE)

CountCode(fs, code) == Cardinality({i \in 1..Len(fs) : fs[i].code = code})

\* C10: for every robots.txt served with status 200 that has a Disallow: /
\* rule under User-agent: * (several such blocks, or a User-agent: * line
\* grouped with other User-agent lines, included), auditRobots returns
\* exactly one ROBOTS_BLOCKS_ALL error finding.
C10_ExactlyOneBlocksAll ==
  (rbPc = "done" /\ rbOutcome = "ok" /\ DisallowsAllUnderStar(rbBody)) =>
     CountCode(rbFindings, "ROBOTS_BLOCKS_ALL") = 1

(***************************************************************************)
(* Properties of auditSitemap                                              *)
(***************************************************************************)
\* C6: when auditSitemap has processed a url-set sitemap with N > 0
\* entries, ctx.sitemapUrls is the ordered list of all N entry URLs.
C6_SitemapUrlsStored ==
  (smPc = "done" /\ smParsed.type = "urlset" /\ Len(smParsed.urls) > 0) =>
     ctxSitemapUrls = Some(smParsed.urls)

\* C7: for a sitemap index, auditSitemap fetches exactly one child sitemap,
\* the first one listed, and sets ctx.sitemapUrls to a list (the child's
\* entry URLs, or the empty list when the child fetch fails); the
\* sitemap-index pass finding is emitted.
C7_FirstChildFetched ==
  (smPc = "done" /\ smParsed.type = "sitemapindex") =>
     /\ smPageFetches = <<SitemapUrl, smParsed.sitemaps[1]>>
     /\ ctxSitemapUrls # Undefined
     /\ \E i \in 1..Len(smFindings) : smFindings[i].severity = "pass"

(***************************************************************************)
(* Properties of the shared HTML cache                                     *)
(***************************************************************************)
\* C8: every analyzer that needs the homepage HTML reads ctx.html first,
\* fetches the homepage only when ctx.html is absent, and, when it did
\* fetch, has written the fetched body to ctx.html by the time it returns.
C8_CacheDiscipline ==
  \A a \in HtmlAnalyzers :
    caPc[a] = "done" =>
      /\ caRead[a] # "no"
      /\ caGot[a] # Undefined => caRead[a] = "absent" /\ caWrote[a] = caGot[a]

StableServer == Cardinality(srvResponses) = 1

TheResponse == CHOOSE r \in srvResponses : TRUE

Writers == {a \in HtmlAnalyzers : caWrote[a] # Undefined}

\* C9: with a server that answers every homepage request alike, all values
\* written to ctx.html in a run are identical and all values written to
\* ctx.headers are identical, so the cache does not depend on which
\* analyzer wrote last.
C9_IdempotentWrites ==
  StableServer =>
    /\ Cardinality(caHtmlWrites) <= 1
    /\ Cardinality(caHeaderWrites) <= 1
    /\ \A a \in Writers : ctxHtml = caWrote[a]
    /\ caHeaderWrites # {} => ctxHeaders = Some(TheResponse.headers)

\* all analyzers have returned, four of them wrote ctx.html and two of
\* them wrote ctx.headers
C9_Witness ==
  /\ StableServer
  /\ \A a \in HtmlAnalyzers : caPc[a] = "done"
  /\ Writers = {"metadata", "structuredData", "i18n", "images"}
  /\ caHeaderWrites # {}

CountSeverityIn(fs, severity) ==
  Cardinality({i \in 1..Len(fs) : fs[i].severity = severity})

\* the sampling loop ran over the whole sample and every fetchHead call
\* returned a status below 400
AllSampledBelow400 ==
  /\ smPc = "done" /\ smParsed.type = "urlset" /\ Len(smParsed.urls) > 0
  /\ Len(smHeadFetches) = Min(Len(smParsed.urls), SITEMAP_SAMPLE_SIZE)
  /\ smHeadOutcomes = {"below400"}

\* C11: for a url-set sitemap with N > 0 entries whose sampled entries
\* (the first min(N, 10)) all answer the HEAD check with a status below
\* 400, auditSitemap returns exactly one pass finding and no
\* SITEMAP_URL_ERROR finding.
C11_AllOkOnePass ==
  AllSampledBelow400 =>
    /\ CountSeverityIn(smFindings, "pass") = 1
    /\ CountCode(smFindings, "SITEMAP_URL_ERROR") = 0

\* a sitemap with more entries than the sample size, one of the sampled
\* entries answering with a redirect status, has been audited
C11_Witness ==
  /\ AllSampledBelow400
  /\ Len(smParsed.urls) > SITEMAP_SAMPLE_SIZE
  /\ smHeadFetches = SubSeq(smParsed.urls, 1, SITEMAP_SAMPLE_SIZE)
  /\ smChain.hops > 0
  /\ CountSeverityIn(smFindings, "pass") = 1

(***************************************************************************)
(* Failure paths of auditRobots                                            *)
(***************************************************************************)
\* C12: when the robots.txt request answers with a status other than 200
\* or fails at the network level, auditRobots returns exactly one finding,
\* a ROBOTS_MISSING warning, and ctx.robotsTxt stays unset.
C12_MissingOnly ==
  (rbPc = "done" /\ rbOutcome \in {"threw", "not200"}) =>
     /\ Len(rbFindings) = 1
     /\ rbFindings[1].code = "ROBOTS_MISSING"
     /\ rbFindings[1].severity = "warning"
     /\ ctxRobotsTxt = Undefined

\* a server that answers the robots.txt request with an error status and
\* a body that would parse as a blocking robots.txt
C12_Witness ==
  /\ rbPc = "done" /\ rbOutcome = "not200"
  /\ DisallowsAllUnderStar(rbBody)
  /\ Len(rbFindings) = 1 /\ ctxRobotsTxt = Undefined

(***************************************************************************)
(* A failed primary-resource fetch                                         *)
(***************************************************************************)
\* auditRobots returned after its robots.txt fetch threw: one ROBOTS_MISSING
\* warning, no check was run
RobotsShortCircuited ==
  /\ Len(rbFindings) = 1 /\ rbFindings[1].code = "ROBOTS_MISSING"
  /\ rbFindings[1].severity = "warning"
  /\ ctxRobotsTxt = Undefined

\* auditSitemap returned after its sitemap.xml fetch threw: a SITEMAP_MISSING
\* warning is the last finding, nothing was parsed and no entry was sampled
SitemapShortCircuited ==
  /\ Len(smFindings) >= 1
  /\ smFindings[Len(smFindings)].code = "SITEMAP_MISSING"
  /\ smFindings[Len(smFindings)].severity = "warning"
  /\ CountCode(smFindings, "SITEMAP_MISSING") = 1
  /\ smParsed = ParseError /\ smHeadFetches = <<>>

\* C13 (as stated): when the primary-resource fetch of the robots, sitemap
\* or metadata analyzer fails at the network level, the analyzer emits the
\* corresponding -Missing finding and returns without any further check.
C13_MissingFindingEmitted ==
  /\ (rbPc = "done" /\ rbOutcome = "threw") => RobotsShortCircuited
  /\ (smPc = "done" /\ smOutcome = "threw") => SitemapShortCircuited
  /\ (mdPc = "done" /\ mdFetch = "threw") =>
        /\ Len(mdFindings) = 1
        /\ mdFindings[1].severity \in {"warning", "error"}

\* C13 (amended): on a network failure of the primary fetch, auditRobots
\* returns only a ROBOTS_MISSING warning and auditSitemap ends with a
\* SITEMAP_MISSING warning, each without any further check; auditMetadata
\* returns no finding at all and leaves ctx.html and ctx.headers unset.
C13_ShortCircuitOnFailure ==
  /\ (rbPc = "done" /\ rbOutcome = "threw") => RobotsShortCircuited
  /\ (smPc = "done" /\ smOutcome = "threw") => SitemapShortCircuited
  /\ (mdPc = "done" /\ mdFetch = "threw") =>
        mdFindings = <<>> /\ ctxHtml = Undefined /\ ctxHeaders = Undefined

\* auditMetadata returned after the homepage fetch threw, for a homepage on
\* which the checks would have found something to report
C13_Witness ==
  /\ mdPc = "done" /\ mdFetch = "threw" /\ mdFindings = <<>>
  /\ ChecksBeforeOgHead(mdPage) # <<>>

(***************************************************************************)
(* Properties of auditRedirects                                            *)
(***************************************************************************)
\* the findings with the given code and severity
CountFinding(fs, code, severity) ==
  Cardinality({i \in 1..Len(fs) : fs[i].code = code /\ fs[i].severity = severity})

\* C14: when the request for the HTTP variant of the homepage fails at the
\* network level, auditRedirects emits neither HTTP_TO_HTTPS_REDIRECT nor
\* HTTP_NO_HTTPS_REDIRECT.
C14_UnreachableHttpSilent ==
  rdHttpSeen = "unreachable" =>
    /\ CountCode(rdFindings, "HTTP_TO_HTTPS_REDIRECT") = 0
    /\ CountCode(rdFindings, "HTTP_NO_HTTPS_REDIRECT") = 0

\* C16: once the homepage chain has returned, the findings hold one
\* REDIRECT_LOOP error exactly when the chain is circular and one
\* REDIRECT_CHAIN warning exactly when it is not circular and has more than
\* one hop; never both, and neither for a non-circular chain of zero or one
\* hop. Before that, and with any other severity, the two codes do not occur.
C16_LoopOrChain ==
  LET loops == CountFinding(rdFindings, "REDIRECT_LOOP", "error")
      chains == CountFinding(rdFindings, "REDIRECT_CHAIN", "warning")
  IN /\ CountCode(rdFindings, "REDIRECT_LOOP") = loops
     /\ CountCode(rdFindings, "REDIRECT_CHAIN") = chains
     /\ loops + chains <= 1
     /\ rdChain = NoResult => loops + chains = 0
     /\ rdChain # NoResult =>
          /\ loops = 1 <=> rdChain.isCircular
          /\ chains = 1 <=> (~rdChain.isCircular /\ rdChain.hops > 1)

\* the analyzer has returned after a homepage chain of two hops or more
\* that came back to a URL already visited
C16_Witness ==
  /\ rdPc = "done" /\ rdChain # NoResult
  /\ rdChain.isCircular /\ rdChain.hops > 1
  /\ CountFinding(rdFindings, "REDIRECT_LOOP", "error") = 1
  /\ CountCode(rdFindings, "REDIRECT_CHAIN") = 0

FindingsFor(url) == SelectSeq(crFindings, LAMBDA f : f.url = url)

\* how many times the crawl audits the URL at position k
Copies(k) == Cardinality({j \in 1..Len(crUrls) : crUrls[j] = crUrls[k]})

\* C17: when auditCrawl has returned, every audit of a page whose fetch
\* failed or whose status is outside 200..299 has contributed exactly one
\* finding, a CRAWL_PAGE_ERROR of severity error: the findings returned for
\* that URL are as many such findings as the crawl audited the URL, and
\* nothing else.
C17_OneErrorPerFailedAudit ==
  crPc = "done" =>
    \A k \in 1..Len(crUrls) :
      LET page == PageOf(crSite, crUrls[k]) IN
        (page.fetch = "threw" \/ page.status < 200 \/ page.status >= 300) =>
          /\ Len(FindingsFor(crUrls[k])) = Copies(k)
          /\ \A i \in 1..Copies(k) :
               FindingsFor(crUrls[k])[i]
                 = [code |-> "CRAWL_PAGE_ERROR", severity |-> "error",
                    url |-> crUrls[k]]

\* C17 as stated: when auditCrawl has returned, every crawled page whose
\* fetch failed or whose status is outside 200..299 has exactly one finding
\* for its URL, a CRAWL_PAGE_ERROR of severity error.
C17_OneErrorPerFailedPage ==
  crPc = "done" =>
    \A k \in 1..Len(crUrls) :
      LET page == PageOf(crSite, crUrls[k]) IN
        (page.fetch = "threw" \/ page.status < 200 \/ page.status >= 300) =>
          FindingsFor(crUrls[k])
            = <<[code |-> "CRAWL_PAGE_ERROR", severity |-> "error",
                 url |-> crUrls[k]]>>

\* a crawl of the mixed site returned with a page that could not be fetched,
\* a 404 page and a 301 page among the crawled ones, each audited once
C17_Witness ==
  /\ crPc = "done" /\ crSite = "mixed" /\ Len(crUrls) >= 8
  /\ PageOf(crSite, crUrls[1]).fetch = "threw"
  /\ PageOf(crSite, crUrls[2]).status = 404
  /\ PageOf(crSite, crUrls[8]).status = 301
  /\ Copies(1) = 1 /\ Copies(2) = 1 /\ Copies(8) = 1
  /\ Len(FindingsFor(crUrls[2])) = 1

\* a crawl of the mixed site returned whose sitemap lists a 404 page and a
\* page that could not be fetched twice each, in different batches
C17_WitnessRepeated ==
  /\ crPc = "done" /\ crSite = "mixed" /\ Len(crUrls) = 9
  /\ crUrls[8] = crUrls[1] /\ PageOf(crSite, crUrls[1]).fetch = "threw"
  /\ crUrls[9] = crUrls[2] /\ PageOf(crSite, crUrls[2]).status = 404
  /\ Copies(1) = 2 /\ Copies(2) = 2
  /\ Len(FindingsFor(crUrls[2])) = 2

\* a sequence n times over
RECURSIVE Repeated(_, _)
Repeated(seq, n) == IF n = 0 THEN <<>> ELSE seq \o Repeated(seq, n - 1)

\* C18: when auditCrawl has returned, every selected URL was audited, and
\* the findings of every page audit that fulfilled are among the returned
\* findings, once for every time the URL was audited, whatever happened to
\* the other pages of its batch and of the batches before.
C18_FailureIsolated ==
  crPc = "done" =>
    /\ Len(crStarted) = Len(crUrls)
    /\ \A k \in 1..Len(crUrls) :
         /\ crResults[k].status \in {"fulfilled", "rejected"}
         /\ crResults[k].status = "fulfilled" =>
              FindingsFor(crUrls[k]) = Repeated(crResults[k].value, Copies(k))

\* in batch one a fetch failed, a page answered 404 and the audit of page 4
\* threw; page 5 of the same batch and page 6 of the next batch have their
\* findings returned
C18_Witness ==
  /\ crPc = "done" /\ crSite = "mixed" /\ Len(crUrls) >= 6
  /\ crResults[1].value # <<>> /\ crResults[4].status = "rejected"
  /\ FindingsFor(crUrls[5]) # <<>> /\ FindingsFor(crUrls[6]) # <<>>

\* C19: when auditCrawl has returned, the pages audited are the first
\* min(|ctx.sitemapUrls|, L) URLs of ctx.sitemapUrls, in order and once each,
\* with L = ctx.crawlLimit, or 50 when it is unset; no page is audited when
\* ctx.sitemapUrls is unset or empty.
C19_FirstLInOrder ==
  crPc = "done" =>
    IF ctxSitemapUrls = Undefined THEN crStarted = <<>>
    ELSE LET n == Len(ctxSitemapUrls.value)
             L == IF crLimit = Undefined THEN 50 ELSE crLimit.value
             m == IF n < L THEN n ELSE L
         IN crStarted = [k \in 1..m |-> ctxSitemapUrls.value[k]]

\* the sitemap lists more than 50 URLs, no limit is set, and 50 were audited
C19_Witness ==
  /\ crPc = "done" /\ crLimit = Undefined /\ ctxSitemapUrls # Undefined
  /\ Len(crStarted) = 50 /\ crResults[50].status = "fulfilled"

\* the batch a position of the URL list belongs to
BatchOf(k) == (k - 1) \div 5

\* C20: at most 5 page audits are in flight, and while a page of a batch is
\* in flight no page of a later batch has been started.
C20_BatchBarrier ==
  /\ Cardinality(crInFlight) <= 5
  /\ \A k \in crInFlight : \A p \in 1..Len(crStarted) : BatchOf(p) <= BatchOf(k)

\* the whole second batch is in flight after the first one settled
C20_Witness ==
  /\ crPc = "batch" /\ crI = 5 /\ Cardinality(crInFlight) = 5
  /\ \A k \in 1..5 : crResults[k].status # "pending"

(***************************************************************************)
(* The analyzers runAudit invokes                                          *)
(***************************************************************************)
\* runAudit called the analyzer: it is one of the modules of a phase and its
\* promise was created
Invoked(a) == a \in DOMAIN rnStatus /\ rnStatus[a] # "idle"

\* the number of entries of report.modules with the analyzer's name
EntriesOf(a) ==
  Cardinality({i \in 1..Len(rnReport.modules) : rnReport.modules[i].module = a})

\* C21: when runAudit returns, every phase-1 and phase-2 analyzer, the
\* performance analyzer among them, was invoked, and each one that fulfilled
\* has exactly one entry in report.modules.
C21_EveryAnalyzerInvoked ==
  rnPc = "done" =>
    \A a \in Range(phase1Modules) \cup Range(phase2Modules) \cup {"performance"} :
      /\ Invoked(a)
      /\ rnStatus[a] = "fulfilled" => EntriesOf(a) = 1

(***************************************************************************)
(* The canonical check of auditMetadata                                    *)
(***************************************************************************)
\* the homepage was fetched and declares a canonical link that resolves
CanonicalResolved ==
  /\ mdPc = "done" /\ mdFetch = "ok" /\ mdPage.canonical # ""
  /\ ResolveHref(mdPage.canonical, mdPage.finalUrl) # "invalid"

\* C22 as stated: after a successful fetch of a homepage with a canonical
\* link, a CANONICAL_MISMATCH warning is emitted whenever the resolved
\* canonical is not equal to the final fetched URL.
C22_MismatchAgainstFinalUrl ==
  (CanonicalResolved
     /\ ResolveHref(mdPage.canonical, mdPage.finalUrl) # mdPage.finalUrl) =>
    CountFinding(mdFindings, "CANONICAL_MISMATCH", "warning") = 1

\* C22 amended: the CANONICAL_MISMATCH warning is emitted, once, exactly when
\* the resolved canonical differs from the final fetched URL and from
\* ctx.normalizedUrl as well.
C22_MismatchAgainstBothUrls ==
  CanonicalResolved =>
    LET canonicalFull == ResolveHref(mdPage.canonical, mdPage.finalUrl) IN
      /\ CountCode(mdFindings, "CANONICAL_MISMATCH")
           = CountFinding(mdFindings, "CANONICAL_MISMATCH", "warning")
      /\ CountCode(mdFindings, "CANONICAL_MISMATCH")
           = IF canonicalFull # mdPage.finalUrl /\ canonicalFull # "https://example.com/"
               THEN 1 ELSE 0

\* the homepage redirected to www and still declares the requested URL as
\* its canonical: no mismatch is reported
C22_Witness ==
  /\ CanonicalResolved
  /\ mdPage.finalUrl = "https://www.example.com/"
  /\ mdPage.canonical = "https://example.com/"
  /\ CountCode(mdFindings, "CANONICAL_MISMATCH") = 0

(***************************************************************************)
(* Sitemap documents with an unexpected root                               *)
(***************************************************************************)
\* C23: a sitemap body that is valid XML with an unexpected root element is
\* handled as malformed XML is: auditSitemap returns with the invalid-XML
\* error finding as its last finding and reports nothing about the entries.
C23_UnexpectedRootIsParseError ==
  (smPc = "done" /\ smOutcome = "ok"
     /\ smDoc.root \notin {"urlset", "sitemapindex", "malformed"}) =>
    /\ Len(smFindings) >= 1
    /\ smFindings[Len(smFindings)].code = "SITEMAP_MISSING"
    /\ smFindings[Len(smFindings)].severity = "error"
    /\ CountCode(smFindings, "SITEMAP_EMPTY") = 0

(***************************************************************************)
(* The robots.txt cross-check of auditSitemap                              *)
(***************************************************************************)
\* the values of the Sitemap directives of the cached robots.txt text
DirectiveValues ==
  IF ctxRobotsTxt = Undefined THEN {}
  ELSE {ctxRobotsTxt.value[i].value :
          i \in {j \in 1..Len(ctxRobotsTxt.value) :
                   /\ ctxRobotsTxt.value[j].key \in {"Sitemap", "sitemap"}
                   /\ ctxRobotsTxt.value[j].colon}}

\* C24: for a non-empty url-set sitemap, SITEMAP_ROBOTS_MISMATCH is emitted,
\* once and as an info, exactly when the cached robots.txt text has at least
\* one Sitemap directive and no directive value equals the default
\* /sitemap.xml URL or the final URL of the sitemap redirect chain; without
\* cached text it is never emitted.
C24_RobotsCrossCheck ==
  (smPc = "done" /\ smParsed.type = "urlset" /\ Len(smParsed.urls) > 0) =>
    /\ CountCode(smFindings, "SITEMAP_ROBOTS_MISMATCH")
         = CountFinding(smFindings, "SITEMAP_ROBOTS_MISMATCH", "info")
    /\ CountCode(smFindings, "SITEMAP_ROBOTS_MISMATCH")
         = IF /\ DirectiveValues # {}
              /\ "https://example.com/sitemap.xml" \notin DirectiveValues
              /\ smChain.finalUrl \notin DirectiveValues
             THEN 1 ELSE 0

\* the sitemap was redirected and robots.txt declares the URL it was
\* redirected to: a non-empty url set is audited without a mismatch
C24_Witness ==
  /\ smPc = "done" /\ smParsed.type = "urlset" /\ Len(smParsed.urls) > 0
  /\ smChain.hops > 0 /\ smChain.finalUrl \in DirectiveValues
  /\ "https://example.com/sitemap.xml" \notin DirectiveValues
  /\ CountCode(smFindings, "SITEMAP_ROBOTS_MISMATCH") = 0

(***************************************************************************)
(* The diff of two reports                                                 *)
(***************************************************************************)
\* some finding of the list has the code and the url of f
PairIn(f, findings) ==
  \E i \in 1..Len(findings) :
    findings[i].code = f.code /\ findings[i].url = f.url

\* C25: newIssues is the list of the current findings whose (code, url) pair
\* no previous finding has, unchanged the list of the other current
\* findings, so every current finding is in exactly one of the two; and
\* resolvedIssues is the list of the previous findings whose pair no current
\* finding has.
C25_DiffByCodeAndUrl ==
  dfPc = "done" =>
    LET current == FlatFindings(dfCurrent)
        previous == FlatFindings(dfPrevious)
    IN /\ dfDiff.newIssues
            = SelectSeq(current, LAMBDA f : ~PairIn(f, previous))
       /\ dfDiff.unchanged
            = SelectSeq(current, LAMBDA f : PairIn(f, previous))
       /\ Len(dfDiff.newIssues) + Len(dfDiff.unchanged) = Len(current)
       /\ dfDiff.resolvedIssues
            = SelectSeq(previous, LAMBDA f : ~PairIn(f, current))

\* a diff with a new, an unchanged and a resolved finding, where the
\* unchanged one changed its severity and the new one shares its code with
\* a previous finding on another page
C25_Witness ==
  /\ dfPc = "done"
  /\ Len(dfDiff.newIssues) = 1 /\ Len(dfDiff.unchanged) = 1
  /\ Len(dfDiff.resolvedIssues) >= 1
  /\ dfDiff.unchanged[1] \notin Range(FlatFindings(dfPrevious))
  /\ \E i \in 1..Len(dfDiff.resolvedIssues) :
       dfDiff.resolvedIssues[i].code = dfDiff.newIssues[1].code

(***************************************************************************)
(* The order of report.modules                                             *)
(***************************************************************************)
\* the analyzers in the order of their declaration
DeclarationOrder ==
  <<"robots", "redirects", "sitemap", "metadata", "favicon", "nextjs",
    "structuredData", "i18n", "images", "security", "crawl">>

\* C26: in every returned report the modules are the fulfilled analyzers in
\* declaration order, in whatever order their promises settled.
C26_DeclarationOrder ==
  rnPc = "done" =>
    [i \in 1..Len(rnReport.modules) |-> rnReport.modules[i].module]
      = SelectSeq(DeclarationOrder, LAMBDA m : rnStatus[m] = "fulfilled")

\* a report of a run with crawl in which metadata rejected and the ten
\* other analyzers fulfilled
C26_Witness ==
  /\ rnPc = "done" /\ rnStatus["metadata"] = "rejected"
  /\ rnStatus["crawl"] = "fulfilled" /\ Len(rnReport.modules) = 10

(***************************************************************************)
(* Findings and the order in which phase-2 analyzers resume                *)
(***************************************************************************)
\* every analyzer of the run has returned
RunDone(r) == \A a \in RaceAnalyzers : rcPc[r][a] = "done"

\* C27: two runs against a server that answers every request for a URL the
\* same way report the same findings, in whatever order the analyzers of
\* each run resumed.
C27_SameFindingsInEveryOrder ==
  (RunDone(1) /\ RunDone(2)) => rcFindings[1] = rcFindings[2]

(***************************************************************************)
(* The shape of a returned RedirectChain                                   *)
(***************************************************************************)
\* C28: in every chain followRedirectChain returns, the first hop starts at
\* the input URL, each hop's location is the next hop's url, every hop has
\* a 3xx status, and finalUrl is the last hop's location, or the input URL
\* when there is no hop.
C28_ChainWellFormed ==
  chPc = "done" =>
    LET hops == chResult.hops
        n == Len(hops)
    IN /\ n > 0 => hops[1].url = chUrl
       /\ \A i \in 1..(n - 1) : hops[i].location = hops[i + 1].url
       /\ \A i \in 1..n : hops[i].status >= 300 /\ hops[i].status <= 399
       /\ chResult.finalUrl = IF n = 0 THEN chUrl ELSE hops[n].location

\* a chain of several hops returned after a request failed
C28_Witness ==
  /\ chPc = "done" /\ Len(chResult.hops) >= 3 /\ chLast = "error"
  /\ ~chResult.isCircular

(***************************************************************************)
(* What every crawled page contributes                                     *)
(***************************************************************************)
\* the codes of the findings returned for a URL
CodesFor(url) ==
  {FindingsFor(url)[i].code : i \in 1..Len(FindingsFor(url))}

\* C29: when auditCrawl has returned, every selected URL has contributed,
\* each time it was audited, either exactly one CRAWL_PAGE_ERROR or the
\* findings detected on its page:
\* for a page fetched with a 2xx status, a noindex directive, a missing title
\* and a missing description are each reported, whatever its canonical href.
C29_DetectedFindingsKept ==
  crPc = "done" =>
    \A k \in 1..Len(crUrls) :
      LET page == PageOf(crSite, crUrls[k])
          url == crUrls[k]
      IN IF page.fetch = "threw" \/ page.status < 200 \/ page.status >= 300
           THEN /\ Len(FindingsFor(url)) = Copies(k)
                /\ CodesFor(url) = {"CRAWL_PAGE_ERROR"}
           ELSE /\ page.noindex => "CRAWL_PAGE_NOINDEX" \in CodesFor(url)
                /\ page.title = "" => "CRAWL_PAGE_TITLE_MISSING" \in CodesFor(url)
                /\ page.description = "" =>
                     "CRAWL_PAGE_DESCRIPTION_MISSING" \in CodesFor(url)

(***************************************************************************)
(* The trailing-slash probe                                                *)
(***************************************************************************)
\* C30: the trailing-slash probe of auditRedirects requests a URL other than
\* ctx.normalizedUrl, and no TRAILING_SLASH_REDIRECT finding is reported for
\* the audited URL itself.
C30_ProbeDiffersFromHomepage ==
  /\ rdPc = "slash" =>
       (IF hasTrailingSlash(rdUrl) THEN removeTrailingSlash(rdUrl)
                                   ELSE addTrailingSlash(rdUrl)) # rdUrl
  /\ \A i \in 1..Len(rdFindings) :
       rdFindings[i].code = "TRAILING_SLASH_REDIRECT" => rdFindings[i].url # rdUrl

====
